---- MODULE Spec2Model ----
(***************************************************************************)
(* Layout selection of slidedeckai: ContentLayoutMatcher                   *)
(* (src/src/slidedeckai/content_matcher.py) working on the layouts held    *)
(* by a TemplateAnalyzer (src/src/slidedeckai/layout_analyzer.py).         *)
(*                                                                         *)
(* Units.  Lengths are tenths of an inch and areas hundredths of a square  *)
(* inch where the code only compares them with a threshold or with each    *)
(* other; where it adds, averages or divides them they are the doubles     *)
(* the code computes.  visual_balance, executive_suitability and the       *)
(* story-aware score of select_layout_with_story_awareness are doubles,    *)
(* in points.  complexity_score is in hundredths of a point.  The content  *)
(* score of score_layout_for_content is in whole points (every term of it  *)
(* is a whole number).                                                     *)
(***************************************************************************)
EXTENDS Integers, Sequences, FiniteSets, TLC

VARIABLES
    layouts,           \* analyzer.layouts: layout index -> LayoutCapability
    used_layouts,      \* matcher.used_layouts
    used_story_types,  \* matcher.used_story_types
    section_sequence,  \* matcher.section_sequence
    calls,             \* log of the calls made so far, one record per call
    all_layouts,       \* every index ever appended to used_layouts, in order
    all_story_types,   \* every story ever appended to used_story_types
    slides,            \* parsed_data['slides'] of the generation run
    total_sections,    \* argument of a stand-alone build_section_sequence call
    sequence,          \* its result
    arc_pc,            \* "idle", "ready" (argument drawn) or "done"
    presentation,      \* presentation.slide_layouts given to TemplateAnalyzer
    next_layout,       \* idx of the loop of _analyze_all_layouts
    failed_layouts,    \* the idx whose analysis raised
    template_analyzers, \* flask_app.template_analyzers: key -> instance, 0 none
    threads,           \* the request threads inside get_or_create_analyzer
    builds,            \* key -> number of TemplateAnalyzer objects constructed
    request,           \* a layout, a slide and a content type handed to the
                       \* matcher, or NoRequest
    score_result,      \* outcome of _score_layout_for_content on it
    mapping_result,    \* outcome of map_content_to_placeholders on it
    analyses,          \* the first and the second analysis of one slide layout
    hash_orders        \* interpreter run -> the order in which list(set(...))
                       \* lists the best_for of that layout in that run

vars == <<layouts, used_layouts, used_story_types, section_sequence, calls,
          all_layouts, all_story_types, slides, total_sections, sequence,
          arc_pc, presentation, next_layout, failed_layouts,
          template_analyzers, threads, builds, request, score_result,
          mapping_result, analyses, hash_orders>>

matcher_vars == <<layouts, used_layouts, used_story_types, section_sequence,
                  calls, all_layouts, all_story_types, slides>>

arc_vars == <<total_sections, sequence, arc_pc>>

analysis_vars == <<presentation, next_layout, failed_layouts>>

cache_vars == <<template_analyzers, threads, builds>>

request_vars == <<request, score_result, mapping_result>>

repeat_vars == <<analyses, hash_orders>>

----------------------------------------------------------------------------
(* Bounds of the model. *)

MaxArcSlides == 100    \* largest total_sections given to build_section_sequence
MaxCalls == 3          \* calls per matcher when the caller passes any arguments
MaxLayouts == 2
MaxThreads == 3
MaxSession == 2
MaxRun == 27           \* longest generation run (slides 0 .. MaxRun-1)

----------------------------------------------------------------------------
(* Small helpers. *)

Max(a, b) == IF a >= b THEN a ELSE b
Min(a, b) == IF a <= b THEN a ELSE b
Abs(a) == IF a >= 0 THEN a ELSE 0 - a

\* Python's list[-n:]: the last n entries (the whole list when it is shorter).
LastN(s, n) == IF Len(s) <= n THEN s ELSE SubSeq(s, Len(s) - n + 1, Len(s))

\* Python's list.count(x).
Count(s, x) == Cardinality({i \in 1..Len(s) : s[i] = x})

NoneStory == "None"    \* Python's None in used_story_types

----------------------------------------------------------------------------
(* Python's float: the IEEE 754 double.  Sums, products and quotients of    *)
(* doubles are rounded to the nearest double at every step, a tie going to  *)
(* the even mantissa, so a value the code computes can lie just beside the  *)
(* exact one and on the other side of a threshold or of another value.      *)
(* The mantissa of a double is a natural number of 53 binary digits, held   *)
(* as the sequence of its digits to the base 2^14, the lowest first and     *)
(* without a zero at the top; <<>> is 0.                                    *)

Limb == 2^14

\* The number whose digits, before carrying, are the whole numbers a[i]
\* (each may be negative or above the base, their weighted sum is not
\* negative), from digit i on with carry c.
RECURSIVE nat_carry(_, _, _)
nat_carry(a, i, c) ==
    IF i > Len(a)
    THEN IF c = 0 THEN <<>>
         ELSE <<c % Limb>> \o nat_carry(a, i, c \div Limb)
    ELSE LET rest == nat_carry(a, i + 1, (a[i] + c) \div Limb)
             digit == (a[i] + c) % Limb
         IN  IF digit = 0 /\ rest = <<>> THEN <<>> ELSE <<digit>> \o rest

nat_digit(a, i) == IF i >= 1 /\ i <= Len(a) THEN a[i] ELSE 0

\* a + b when sign is 1, a - b (for a >= b) when sign is -1.
nat_add(a, b, sign) ==
    nat_carry([i \in 1..Max(Len(a), Len(b)) |->
                  nat_digit(a, i) + sign * nat_digit(b, i)], 1, 0)

nat_less(a, b) ==
    IF Len(a) # Len(b) THEN Len(a) < Len(b)
    ELSE \E i \in 1..Len(a) :
             a[i] < b[i] /\ \A j \in (i + 1)..Len(a) : a[j] = b[j]

\* The number of binary digits of a.
nat_bits(a) ==
    IF a = <<>> THEN 0
    ELSE 14 * (Len(a) - 1)
         + (CHOOSE k \in 1..14 : 2^(k - 1) <= a[Len(a)] /\ a[Len(a)] < 2^k)

\* The whole part of a * 2^k, for k of either sign, plus c.
nat_shift(a, k, c) ==
    nat_carry([i \in 1..Max(0, Len(a) + (k \div 14) + 1) |->
                  ((nat_digit(a, i - (k \div 14)) * 2^(k % 14)) % Limb)
                  + (nat_digit(a, i - (k \div 14) - 1)
                     \div 2^(14 - (k % 14)))],
              1, c)

\* Binary digit k of a, counted from 0, is 1.
nat_bit(a, k) == (nat_digit(a, (k \div 14) + 1) \div 2^(k % 14)) % 2 = 1

\* One of the binary digits of a below digit k is 1.
nat_bits_below(a, k) ==
    \/ nat_digit(a, (k \div 14) + 1) % 2^(k % 14) # 0
    \/ \E i \in 1..Min(k \div 14, Len(a)) : a[i] # 0

\* Python's sum() of whole numbers.
RECURSIVE SumSeq(_)
SumSeq(s) == IF s = <<>> THEN 0 ELSE Head(s) + SumSeq(Tail(s))

nat_mul(a, b) ==
    nat_carry([k \in 1..(Len(a) + Len(b)) |->
                  SumSeq([i \in 1..Len(a) |->
                             a[i] * nat_digit(b, k + 1 - i)])], 1, 0)

\* a * k for a digit k.
nat_times(a, k) == nat_carry([i \in 1..Len(a) |-> a[i] * k], 1, 0)

\* The largest digit at most guess whose product with d is at most r.
RECURSIVE nat_quotient_digit(_, _, _)
nat_quotient_digit(r, d, guess) ==
    IF nat_less(r, nat_times(d, guess))
    THEN nat_quotient_digit(r, d, guess - 1)
    ELSE guess

\* Long division: the first k digits to the base 2^14 after the point of
\* r / d, the highest first, followed by TRUE when the division ends there;
\* r < d, and the top digit of d is at least 2^13, so that the guess made
\* from the top digits is at most 2 too large.
RECURSIVE nat_quotient(_, _, _)
RECURSIVE nat_quotient_step(_, _, _, _)
nat_quotient_step(r, d, digit, k) ==
    <<digit>> \o nat_quotient(nat_add(r, nat_times(d, digit), -1), d, k)

nat_quotient(r, d, k) ==
    IF k = 0 THEN <<r = <<>>>>
    ELSE IF r = <<>> THEN <<0>> \o nat_quotient(r, d, k - 1)
    ELSE nat_quotient_step(
             <<0>> \o r, d,
             nat_quotient_digit(
                 <<0>> \o r, d,
                 Min(Limb - 1,
                     (nat_digit(r, Len(d)) * Limb + nat_digit(r, Len(d) - 1))
                     \div d[Len(d)])),
             k - 1)

\* A double: (-1)^neg * man * 2^exp with 2^52 <= man < 2^53, or 0 (man
\* <<>>).  Infinities, NaN and subnormal numbers do not occur.
float_zero == [neg |-> FALSE, man |-> <<>>, exp |-> 0]

\* Rounding n to 53 binary digits goes up: the first digit dropped is 1,
\* and more follows it or the digit kept last is 1 (a tie goes to the even
\* mantissa).
rounds_up(n, s, exact) ==
    /\ s > 0
    /\ nat_bit(n, s - 1)
    /\ (~exact \/ nat_bits_below(n, s - 1) \/ nat_bit(n, s))

\* The double of mantissa q, which rounding up may have brought to 2^53.
float_pack(neg, q, e) ==
    IF nat_bits(q) = 54
    THEN [neg |-> neg, man |-> <<0, 0, 0, 2^10>>, exp |-> e + 1]
    ELSE [neg |-> neg, man |-> q, exp |-> e]

\* The double nearest to n * 2^e (plus a little when ~exact), a tie going
\* to the even mantissa.
float_round(neg, n, e, exact) ==
    IF n = <<>> THEN float_zero
    ELSE float_pack(neg,
                    nat_shift(n, 53 - nat_bits(n),
                              IF rounds_up(n, nat_bits(n) - 53, exact)
                              THEN 1 ELSE 0),
                    e + nat_bits(n) - 53)

\* A function held as the table of its values, each computed once.
Table(f) == f @@ <<>>

\* float(n) for a whole number n, read from the table of the small numbers
\* when asked to and the table has it.
RECURSIVE float_from_int(_, _)
SmallDoubles == Table([n \in 0..100 |-> float_from_int(n, FALSE)])

float_from_int(n, from_table) ==
    IF from_table /\ n \in DOMAIN SmallDoubles THEN SmallDoubles[n]
    ELSE float_round(n < 0, nat_carry(<<Abs(n)>>, 1, 0), 0, TRUE)

float_of_int(n) == float_from_int(n, TRUE)

float_neg(x) == IF x.man = <<>> THEN x ELSE [x EXCEPT !.neg = ~x.neg]
float_abs(x) == [x EXCEPT !.neg = FALSE]

\* The sum of two numbers of the same exponent e: the smaller magnitude is
\* taken from the larger when the signs differ.
float_add_aligned(x_neg, nx, y_neg, ny, e) ==
    IF x_neg # y_neg /\ nat_less(nx, ny)
    THEN float_round(y_neg, nat_add(ny, nx, -1), e, TRUE)
    ELSE float_round(x_neg, nat_add(nx, ny, IF x_neg = y_neg THEN 1 ELSE -1),
                     e, TRUE)

float_add(x, y) ==
    IF x.man = <<>> THEN y
    ELSE IF y.man = <<>> THEN x
    ELSE float_add_aligned(
             x.neg, nat_shift(x.man, x.exp - Min(x.exp, y.exp), 0),
             y.neg, nat_shift(y.man, y.exp - Min(x.exp, y.exp), 0),
             Min(x.exp, y.exp))

float_sub(x, y) == float_add(x, float_neg(y))

float_mul(x, y) ==
    float_round(x.neg # y.neg, nat_mul(x.man, y.man), x.exp + y.exp, TRUE)

\* The quotient of r by d (at least d / 2 and less than 2d) to 56 binary
\* digits after the point, times 2^e.
float_div_digits(neg, first, digits, e) ==
    float_round(neg,
                nat_carry(<<digits[4], digits[3], digits[2], digits[1],
                            IF first THEN 1 ELSE 0>>, 1, 0),
                e, digits[5])

float_div_shifted(neg, r, d, e) ==
    float_div_digits(neg, ~nat_less(r, d),
                     nat_quotient(nat_add(r, IF nat_less(r, d) THEN <<>> ELSE d,
                                          -1), d, 4),
                     e)

\* x / y for y # 0.
float_div(x, y) ==
    IF x.man = <<>> THEN float_zero
    ELSE float_div_shifted(x.neg # y.neg, nat_shift(x.man, 3, 0),
                           nat_shift(y.man, 3, 0), x.exp - y.exp - 56)

float_less(x, y) ==
    IF x.man = <<>> THEN y.man # <<>> /\ ~y.neg
    ELSE IF y.man = <<>> THEN x.neg
    ELSE IF x.neg # y.neg THEN x.neg
    ELSE IF x.neg
    THEN \/ x.exp > y.exp
         \/ x.exp = y.exp /\ nat_less(y.man, x.man)
    ELSE \/ x.exp < y.exp
         \/ x.exp = y.exp /\ nat_less(x.man, y.man)

\* The value the table holds for the key, and otherwise when it has none.
Lookup(table, key, otherwise) ==
    IF key \in DOMAIN table THEN table[key] ELSE otherwise

float_hundred == float_of_int(100)
float_seventy == float_of_int(70)

\* Python's sum() of floats (CPython 3.11): from the left, every partial
\* sum rounded.
RECURSIVE float_sum(_)
float_sum(xs) ==
    IF xs = <<>> THEN float_zero
    ELSE float_add(float_sum(SubSeq(xs, 1, Len(xs) - 1)), xs[Len(xs)])

\* The whole numbers ns as floats.
float_ints(ns) == [i \in 1..Len(ns) |-> float_of_int(ns[i])]

\* min(a, b) of two floats: a unless b is less.
float_min(a, b) == IF float_less(b, a) THEN b ELSE a

\* A length of k tenths of an inch: EMU / 914400.0, the double nearest to
\* k / 10; read from the table of the lengths up to 20 inches when asked
\* to and the table has it.
RECURSIVE length_from(_, _)
LengthDoubles == Table([k \in 0..200 |-> length_from(k, FALSE)])

length_from(k, from_table) ==
    IF from_table /\ k \in DOMAIN LengthDoubles THEN LengthDoubles[k]
    ELSE float_div(float_of_int(k), float_of_int(10))

length_double(k) == length_from(k, TRUE)

\* Lengths of so many tenths of an inch each (lines 337-340).
inches(tenths) == [i \in 1..Len(tenths) |-> length_double(tenths[i])]

float_product(factors) == float_mul(factors[1], factors[2])

\* area = width * height (line 341), the rounded product of two doubles:
\* two placeholders of the same exact area can have different areas.
area_double(ph) == float_product(inches(<<ph.width, ph.height>>))

RECURSIVE AreaDoubles(_)
AreaDoubles(placeholders) ==
    IF placeholders = <<>> THEN <<>>
    ELSE <<area_double(Head(placeholders))>>
         \o AreaDoubles(Tail(placeholders))

\* sum(areas) / len(areas).
mean_area(areas) == float_div(float_sum(areas), float_of_int(Len(areas)))

\* max(abs(a - avg_area) for a in areas).
max_deviation(areas, avg_area) ==
    LET deviations == {float_abs(float_sub(areas[i], avg_area)) :
                          i \in 1..Len(areas)}
    IN  CHOOSE largest \in deviations :
            \A other \in deviations : ~float_less(largest, other)

----------------------------------------------------------------------------
(* The story arc: ContentLayoutMatcher._build_section_sequence. *)

body_types == <<"data_visualization", "balanced_comparison",
                "three_stage_narrative", "metrics_dashboard",
                "detailed_analysis", "hierarchical_story", "feature_grid">>

\* The totals n below 1200 for which the double product n * 0.7 lies just
\* under the whole number 7n/10, so that int(n * 0.7) is one less than it.
FloatShortOfSeventyPercent ==
    {90, 170, 180, 330, 340, 350, 360, 650, 660, 670, 680, 690, 700, 710,
     720, 730}

\* int(total_sections * 0.7), for 0 <= n < 1200.
body_count(n) ==
    IF n \in FloatShortOfSeventyPercent THEN (7 * n) \div 10 - 1
    ELSE (7 * n) \div 10

\* Mutant: the opening rounded up, ceil(total_sections / 10).
opening_count_ceil(n) == Max(1, (n + 9) \div 10)

\* max(1, total_sections // 10)
opening_count(n) == Max(1, n \div 10)

\* Mutant: the closing part sized without subtracting the opening.
closing_count_no_opening(n) == n - body_count(n)

\* total_sections - opening_count - body_count; range() of a negative count
\* is empty.
closing_count(n) == n - opening_count(n) - body_count(n)

\* Mutant: the closing part ends with a summary slide like the rest of it.
build_section_sequence_flat_closing(n) ==
    LET oc == opening_count(n)
        bc == body_count(n)
        cc == Max(0, closing_count(n))
    IN  [i \in 1..oc |-> "focused_message"]
        \o [i \in 1..bc |-> body_types[((i - 1) % Len(body_types)) + 1]]
        \o [i \in 1..cc |-> "metrics_dashboard"]

build_section_sequence(n) ==
    LET oc == opening_count(n)
        bc == body_count(n)
        cc == Max(0, closing_count(n))
    IN  [i \in 1..oc |-> "focused_message"]
        \o [i \in 1..bc |-> body_types[((i - 1) % Len(body_types)) + 1]]
        \o [i \in 1..cc |-> IF i = cc THEN "focused_message"
                                      ELSE "metrics_dashboard"]

----------------------------------------------------------------------------
(* PlaceholderInfo: [idx, left, top, width, height, area], lengths in       *)
(* tenths of an inch, area in hundredths of a square inch.  The size flags  *)
(* of PlaceholderInfo.__post_init__ are functions of these fields.          *)

is_small_box(ph) == ph.area < 300
\* A medium class that starts above 3.0.
is_medium_box_above_three(ph) == 300 < ph.area /\ ph.area < 1500

is_medium_box(ph) == 300 <= ph.area /\ ph.area < 1500
is_large_box(ph) == ph.area >= 1500
\* aspect_ratio = width / height if height > 0 else 1.0;  is_wide: > 2.0
is_wide(ph) == ph.height > 0 /\ ph.width > 2 * ph.height

----------------------------------------------------------------------------
(* Slide payloads (slide_json).  A payload is a record                      *)
(*   [chart: BOOLEAN, table: [present, headers, rows], bullet_points: Seq]  *)
(* chart is the truth value of slide_json['chart']; table.present that of   *)
(* slide_json['table'], table.is_dict FALSE when the key is there with a    *)
(* value that is no dict (None, a list, a string), headers and rows the     *)
(* lengths of the dict's two lists.  An                                     *)
(* entry of bullet_points is a string, [kind |-> "str", len, icon] with     *)
(* icon saying whether it contains '[[', or a dict,                         *)
(* [kind |-> "dict", has_heading, heading, has_bullet_points,               *)
(* bullet_points] with heading the length of str(item['heading']).          *)

Str(n) == [kind |-> "str", len |-> n, icon |-> FALSE]
Icon(n) == [kind |-> "str", len |-> n, icon |-> TRUE]
Dict(h, b) == [kind |-> "dict", has_heading |-> TRUE, heading |-> h,
               has_bullet_points |-> TRUE, bullet_points |-> b]
NoTable == [present |-> FALSE, is_dict |-> TRUE, headers |-> 0, rows |-> 0]

RECURSIVE estimate_bullet_lines(_)
\* ContentLayoutMatcher._estimate_bullet_lines, for a list of strings and
\* dicts.
estimate_bullet_lines(bullets) ==
    IF bullets = <<>> THEN 0
    ELSE LET item == Head(bullets)
             lines == IF item.kind = "str" THEN Max(1, item.len \div 50)
                      ELSE 2 + (IF item.has_bullet_points
                                THEN estimate_bullet_lines(item.bullet_points)
                                ELSE 0)
         IN  lines + estimate_bullet_lines(Tail(bullets))

\* ContentLayoutMatcher._infer_content_type_from_json
infer_content_type_from_json(slide_json) ==
    LET bullets == slide_json.bullet_points
        items == {bullets[i] : i \in 1..Len(bullets)}
    IN  IF slide_json.chart THEN "chart"
        ELSE IF slide_json.table.present THEN "table"
        ELSE IF bullets = <<>> THEN "bullets"
        ELSE IF \A item \in items : item.kind = "str" /\ item.icon
             THEN "pictogram"
        ELSE IF \A item \in items : item.kind = "dict" /\ item.has_heading
             THEN IF Len(bullets) >= 4 /\ \A item \in items : item.heading < 20
                  THEN "kpi_dashboard"
                  ELSE "comparison"
        ELSE "bullets"

----------------------------------------------------------------------------
(* LayoutCapability.  A layout is a record with the fields of the           *)
(* dataclass that the matcher reads.  content_capacity and                  *)
(* content_density_recommendation are records, or the empty function <<>>   *)
(* for the empty dict a fallback layout is built with.  kpi_grid is NoGrid  *)
(* for None.  spatial_groups is the set of the dict's keys.                 *)

NoGrid == [boxes |-> <<>>, rows |-> 0, cols |-> 0]

has_kpi_grid(layout) == layout.kpi_grid # NoGrid

\* len([p for p in layout.content_placeholders if p.is_small_box])
count_small_boxes(layout) ==
    Cardinality({i \in 1..Len(layout.content_placeholders) :
                    is_small_box(layout.content_placeholders[i])})

\* len([p for p in layout.content_placeholders
\*      if p.is_medium_box and p.is_wide])
count_horizontal_boxes(layout) ==
    Cardinality({i \in 1..Len(layout.content_placeholders) :
                    /\ is_medium_box(layout.content_placeholders[i])
                    /\ is_wide(layout.content_placeholders[i])})

----------------------------------------------------------------------------
(* Scoring: ContentLayoutMatcher._score_layout_for_content and the          *)
(* per-content-type scorers.  A scorer that indexes a key missing from      *)
(* content_capacity raises KeyError; LookupFails says when that happens.    *)

LookupFails(layout, content_type) ==
    LET keys == DOMAIN layout.content_capacity
    IN  CASE content_type = "chart" -> "chart" \notin keys
          [] content_type = "table" -> "table" \notin keys
          [] content_type = "kpi_dashboard" ->
                 has_kpi_grid(layout) /\ "kpis" \notin keys
          [] content_type = "pictogram" -> "pictograms" \notin keys
          [] content_type = "bullets" -> "bullets" \notin keys
          [] OTHER -> FALSE

\* The scorer of the content type raises: KeyError on a key missing from
\* content_capacity, or AttributeError in _score_for_table (line 420), which
\* calls .get on slide_json.get('table', {}), when the table is no dict.
ScorerRaises(layout, content_type, slide_json) ==
    \/ LookupFails(layout, content_type)
    \/ content_type = "table" /\ ~slide_json.table.is_dict

score_for_chart(layout, slide_json) ==
    LET cap == layout.content_capacity["chart"]
        sections == layout.semantic_sections
    IN  (IF cap.suitable
         THEN 30 + (IF cap.available_area > 5000 THEN 10 ELSE 0)
         ELSE 0)
        + (IF /\ Len(sections) = 1
              /\ Len(sections[1].content_areas) = 1
              /\ is_large_box(sections[1].content_areas[1])
           THEN 20 ELSE 0)

score_for_table(layout, slide_json) ==
    LET needed_cols == slide_json.table.headers
        needed_rows == slide_json.table.rows
        capacity == layout.content_capacity["table"]
    IN  (IF capacity.max_cols >= needed_cols /\ capacity.max_rows >= needed_rows
         THEN 40 + (IF capacity.max_cols <= needed_cols + 2 THEN 10 ELSE 0)
         ELSE 10)
        + (IF Len(layout.semantic_sections) = 1 THEN 10 ELSE 0)

score_for_kpi(layout, slide_json) ==
    LET needed_kpis == Len(slide_json.bullet_points)
    IN  IF has_kpi_grid(layout)
        THEN LET available == layout.content_capacity["kpis"].count
             IN  IF available >= needed_kpis
                 THEN 50 + (IF available = needed_kpis THEN 10 ELSE 0)
                 ELSE 0
        ELSE IF count_small_boxes(layout) >= needed_kpis
             THEN 30 ELSE 0

score_for_pictogram(layout, slide_json) ==
    LET needed_icons == Len(slide_json.bullet_points)
        cap == layout.content_capacity["pictograms"]
    IN  (IF cap.suitable /\ cap.estimated_count >= needed_icons
         THEN 40 + (IF Abs(cap.estimated_count - needed_icons) <= 1
                    THEN 10 ELSE 0)
         ELSE 0)
        + (IF count_horizontal_boxes(layout) > 0 THEN 10 ELSE 0)

score_for_comparison(layout, slide_json) ==
    LET bullets == slide_json.bullet_points
        needed_cols == IF bullets # <<>> /\ bullets[1].kind = "dict"
                       THEN Len(bullets) ELSE 2
        nsections == Len(layout.semantic_sections)
    IN  (IF nsections = needed_cols THEN 50
         ELSE IF Abs(nsections - needed_cols) = 1 THEN 30 ELSE 0)
        + (IF needed_cols = 2 /\ "left_column" \in layout.spatial_groups
           THEN 10 ELSE 0)

score_for_bullets(layout, slide_json) ==
    LET estimated_lines == estimate_bullet_lines(slide_json.bullet_points)
        density_rec == layout.content_density_recommendation
        target_bullets == IF "bullets_recommended" \in DOMAIN density_rec
                          THEN density_rec.bullets_recommended ELSE 10
        capacity_lines == layout.content_capacity["bullets"].max_lines
    IN  (IF Abs(estimated_lines - target_bullets) <= 2 THEN 50
         ELSE IF capacity_lines >= estimated_lines
              THEN 40 + (IF capacity_lines <= estimated_lines + 5
                         THEN 10 ELSE 0)
         ELSE 20)
        + (IF ~float_less(layout.executive_suitability, float_seventy)
           THEN 10 ELSE 0)

score_layout_for_content(layout, content_type, slide_json) ==
    Min(100,
        (IF content_type \in layout.best_for THEN 40 ELSE 0)
        + (CASE content_type = "chart" -> score_for_chart(layout, slide_json)
             [] content_type = "table" -> score_for_table(layout, slide_json)
             [] content_type = "kpi_dashboard" ->
                    score_for_kpi(layout, slide_json)
             [] content_type = "pictogram" ->
                    score_for_pictogram(layout, slide_json)
             [] content_type = "comparison" ->
                    score_for_comparison(layout, slide_json)
             [] content_type = "bullets" ->
                    score_for_bullets(layout, slide_json)
             [] OTHER -> 0)
        + (IF float_less(float_seventy, layout.visual_balance)
           THEN 5 ELSE 0)
        + (IF layout.fill_difficulty = "easy" THEN 3 ELSE 0))

----------------------------------------------------------------------------
(* Template analysis: TemplateAnalyzer._analyze_single_layout and the       *)
(* functions it calls.  A slide layout is a record [bad, placeholders]:     *)
(* bad says that reading layout.placeholders raises, placeholders is the    *)
(* sequence of its shapes, each [idx, type_id, left, top, width, height]    *)
(* in tenths of an inch, or unreadable: a shape one of whose attributes     *)
(* raises when read (python-pptx gives None for a position or size the      *)
(* layout inherits, and None / 914400.0 raises TypeError).                  *)
(*                                                                          *)
(* The code computes in doubles: a length of k tenths is the double nearest *)
(* to k / 10 (EMU / 914400.0).  For lengths of 0 to 14 inches the quotients *)
(* and differences of two lengths and the int() of a quotient are computed  *)
(* here as the doubles give them: where the double result falls on the      *)
(* other side of a threshold than the exact one, the operands are listed.   *)
(* The product width * height compares with 1.0, 3.0, 15.0 and 40 as the    *)
(* exact product does for all these lengths.                                *)

Shape(idx, type_id, left, top, width, height) ==
    [idx |-> idx, type_id |-> type_id, left |-> left, top |-> top,
     width |-> width, height |-> height, readable |-> TRUE]

\* A placeholder without position and size of its own.
ShapeWithoutSize(idx, type_id) ==
    [idx |-> idx, type_id |-> type_id, left |-> 0, top |-> 0,
     width |-> 0, height |-> 0, readable |-> FALSE]

SlideLayout(placeholders) == [bad |-> FALSE, placeholders |-> placeholders]

Areas(placeholders) ==
    [i \in 1..Len(placeholders) |-> placeholders[i].area]

\* The first of the placeholders whose area is the largest of areas, the
\* areas of the placeholders in their order.
first_largest(placeholders, areas) ==
    placeholders[CHOOSE i \in 1..Len(areas) :
        /\ \A j \in 1..Len(areas) : ~float_less(areas[i], areas[j])
        /\ \A j \in 1..(i - 1) : float_less(areas[j], areas[i])]

\* max(placeholders, key=lambda x: x.area): the first of those whose area,
\* a double product, is the largest.
FirstLargest(placeholders) ==
    first_largest(placeholders, AreaDoubles(placeholders))

\* aspect_ratio > 1.5, with aspect_ratio = 1.0 for a height of 0.  For the
\* sizes listed the double width / height is 1.5000000000000002.
aspect_over_three_halves(ph) ==
    LET rounds_over == {<<21, 14>>, <<42, 28>>, <<57, 38>>, <<69, 46>>,
                        <<84, 56>>, <<99, 66>>, <<114, 76>>, <<123, 82>>,
                        <<138, 92>>}
    IN  /\ ph.height > 0
        /\ \/ 2 * ph.width > 3 * ph.height
           \/ <<ph.width, ph.height>> \in rounds_over

\* aspect > 3.0 (lines 980-981), aspect being the double width / height, or
\* 1.0 for a height of 0.  For the sizes listed it is 3.0000000000000004.
aspect_over_three(width, height) ==
    LET rounds_over == {<<21, 7>>, <<42, 14>>, <<57, 19>>, <<69, 23>>,
                        <<84, 28>>, <<99, 33>>, <<114, 38>>, <<123, 41>>,
                        <<138, 46>>}
    IN  /\ height > 0
        /\ width > 3 * height \/ <<width, height>> \in rounds_over

\* The role of a placeholder; type_name plays no part in it.
classify_placeholder_role(type_id, width, height, area) ==
    IF type_id = 4 THEN "subtitle"
    ELSE IF type_id = 1 THEN "title"
    ELSE IF type_id \in {5, 6, 7, 8} THEN "footer"
    ELSE IF type_id \in {10, 11, 15} THEN "content"
    ELSE IF type_id \in {2, 9, 16, 17}
         THEN IF height < 5 THEN "subtitle"
              ELSE IF area < 100 THEN "subtitle"
              ELSE IF aspect_over_three(width, height) /\ height < 8
                   THEN "subtitle"
              ELSE "content"
    ELSE "content"

shape_role(shape) ==
    classify_placeholder_role(shape.type_id, shape.width, shape.height,
                              shape.width * shape.height)

\* PlaceholderInfo of a shape (lines 337-356).
placeholder_info(shape) ==
    [idx |-> shape.idx, left |-> shape.left, top |-> shape.top,
     width |-> shape.width, height |-> shape.height,
     area |-> shape.width * shape.height]

\* Lines 360-387: which list a shape is appended to.  A shape whose
\* attributes raise is skipped by the except clause of line 389 before it
\* is appended to any list or sets any flag.
goes_to_subtitles(shape) ==
    /\ shape.readable
    /\ \/ shape.type_id = 4
       \/ shape.type_id \in {2, 9, 16, 17} /\ shape_role(shape) = "subtitle"

goes_to_content(shape) ==
    /\ shape.readable
    /\ \/ shape.type_id \in {10, 11, 15}
       \/ shape.type_id \in {2, 9, 16, 17} /\ shape_role(shape) # "subtitle"

goes_to_text(shape) ==
    /\ shape.readable
    /\ shape.type_id \in {2, 16}
    /\ shape_role(shape) # "subtitle"

InfoOf(shapes) == [i \in 1..Len(shapes) |-> placeholder_info(shapes[i])]

subtitle_placeholders_of(shapes) == InfoOf(SelectSeq(shapes, goes_to_subtitles))
content_placeholders_of(shapes) == InfoOf(SelectSeq(shapes, goes_to_content))
text_placeholders_of(shapes) == InfoOf(SelectSeq(shapes, goes_to_text))

HasType(shapes, type_id) ==
    \E i \in 1..Len(shapes) :
        shapes[i].readable /\ shapes[i].type_id = type_id

\* round(box.top * 3): the nearest whole number to 3 * top / 10, a tie going
\* to the even one.
row_key(box) ==
    LET q == (3 * box.top) \div 10
        r == (3 * box.top) % 10
    IN  IF r < 5 THEN q
        ELSE IF r > 5 THEN q + 1
        ELSE IF q % 2 = 0 THEN q ELSE q + 1

\* max_deviation > avg_area * 0.3 (line 599), all in doubles, for the
\* avg_area of line 596.
over_thirty_percent(areas, avg_area) ==
    float_less(float_mul(avg_area,
                         float_div(float_of_int(3), float_of_int(10))),
               max_deviation(areas, avg_area))

\* Lines 596-599: the largest deviation from the mean area is over 30% of
\* the mean.
deviates_over_thirty_percent(areas) ==
    over_thirty_percent(areas, mean_area(areas))

\* Mutant: a single row of boxes is accepted as a grid.
detect_kpi_grid_one_row(placeholders) ==
    LET small_boxes == SelectSeq(placeholders, is_small_box)
        keys == {row_key(small_boxes[i]) : i \in 1..Len(small_boxes)}
        row(k) == {i \in 1..Len(small_boxes) : row_key(small_boxes[i]) = k}
        areas == AreaDoubles(small_boxes)
    IN  IF Len(small_boxes) < 4 THEN NoGrid
        ELSE IF \E k \in keys : Cardinality(row(k)) < 2 THEN NoGrid
        ELSE IF deviates_over_thirty_percent(areas) THEN NoGrid
        ELSE [boxes |-> [i \in 1..Len(small_boxes) |-> small_boxes[i].idx],
              rows |-> Cardinality(keys),
              cols |-> Cardinality(row(row_key(small_boxes[1])))]

\* _detect_kpi_grid: NoGrid for None.  cols is the length of the row of the
\* first small box.
detect_kpi_grid(placeholders) ==
    LET small_boxes == SelectSeq(placeholders, is_small_box)
        keys == {row_key(small_boxes[i]) : i \in 1..Len(small_boxes)}
        row(k) == {i \in 1..Len(small_boxes) : row_key(small_boxes[i]) = k}
        areas == AreaDoubles(small_boxes)
    IN  IF Len(small_boxes) < 4 THEN NoGrid
        ELSE IF Cardinality(keys) < 2
                \/ \E k \in keys : Cardinality(row(k)) < 2 THEN NoGrid
        ELSE IF deviates_over_thirty_percent(areas) THEN NoGrid
        ELSE [boxes |-> [i \in 1..Len(small_boxes) |-> small_boxes[i].idx],
              rows |-> Cardinality(keys),
              cols |-> Cardinality(row(row_key(small_boxes[1])))]

\* _group_by_spatial_position: the keys of the dict it returns.
group_by_spatial_position(placeholders) ==
    LET n == Len(placeholders)
        left_positions == {placeholders[i].left : i \in 1..n}
        top_positions == {placeholders[i].top : i \in 1..n}
    IN  IF n = 0 THEN {}
        ELSE IF Cardinality(left_positions) = 1
             THEN IF Cardinality(top_positions) = 1 THEN {"center"}
                  ELSE {"row_" \o ToString(i) :
                            i \in 1..Cardinality(top_positions)}
        ELSE IF Cardinality(left_positions) = 2
             THEN {"left_column", "right_column"}
        ELSE IF Cardinality(left_positions) = 3
             THEN {"left_column", "center_column", "right_column"}
        ELSE {"cell_" \o ToString(i) : i \in 1..n}

\* vertical_distance < 1.0 (line 493), vertical_distance being the double
\* content.top - subtitle.top, which is just under 1.0 for the tops listed.
vertical_distance_under_an_inch(content_top, subtitle_top) ==
    LET rounds_under == {<<14, 4>>, <<19, 9>>, <<23, 13>>, <<28, 18>>,
                         <<41, 31>>, <<46, 36>>, <<82, 72>>, <<87, 77>>}
    IN  \/ content_top - subtitle_top < 10
        \/ <<content_top, subtitle_top>> \in rounds_under

\* abs(content.left - subtitle.left) > 1.5 (line 497); the double difference
\* is just over 1.5 in size for the lefts listed, in either order.
left_distance_over_an_inch_and_a_half(content_left, subtitle_left) ==
    LET rounds_over == {<<22, 7>>, <<27, 12>>, <<32, 17>>, <<44, 29>>,
                        <<49, 34>>, <<54, 39>>, <<83, 68>>, <<88, 73>>,
                        <<93, 78>>}
    IN  \/ Abs(content_left - subtitle_left) > 15
        \/ <<content_left, subtitle_left>> \in rounds_over
        \/ <<subtitle_left, content_left>> \in rounds_over

\* Mutant: a content area may be taken by a later subtitle again.
related_content_reused(subtitle, content_areas, used_content) ==
    LET related(content) ==
            /\ 0 < content.top - subtitle.top
            /\ vertical_distance_under_an_inch(content.top, subtitle.top)
            /\ ~left_distance_over_an_inch_and_a_half(content.left,
                                                      subtitle.left)
    IN  SelectSeq(content_areas, related)

\* Lines 487-501: the content areas related to a subtitle, among those whose
\* idx is not in used_content.  The idx of an area taken is added to
\* used_content inside the loop, so of several areas with one idx only the
\* first related one is taken.
related_content(subtitle, content_areas, used_content) ==
    LET related(content) ==
            /\ content.idx \notin used_content
            /\ 0 < content.top - subtitle.top
            /\ vertical_distance_under_an_inch(content.top, subtitle.top)
            /\ ~left_distance_over_an_inch_and_a_half(content.left,
                                                      subtitle.left)
        taken == {i \in 1..Len(content_areas) :
                     /\ related(content_areas[i])
                     /\ \A j \in 1..(i - 1) :
                            content_areas[j].idx = content_areas[i].idx
                                => ~related(content_areas[j])}
    IN  [k \in 1..Cardinality(taken) |->
            content_areas[CHOOSE i \in taken :
                              Cardinality({j \in taken : j <= i}) = k]]

RECURSIVE sections_from(_, _, _)
sections_from(subtitles, content_areas, used_content) ==
    IF subtitles = <<>> THEN <<>>
    ELSE LET subtitle == Head(subtitles)
             related == related_content(subtitle, content_areas, used_content)
             used1 == used_content
                      \cup {related[i].idx : i \in 1..Len(related)}
             rest == sections_from(Tail(subtitles), content_areas, used1)
         IN  IF related = <<>> THEN rest
             ELSE <<[subtitle |-> subtitle.idx, content_areas |-> related]>>
                  \o rest

\* _group_placeholders_semantically: one section per subtitle that has
\* content within an inch below it.
group_placeholders_semantically(subtitles, content_areas) ==
    sections_from(subtitles, content_areas, {})

\* The index of the first placeholder of the lowest left among those whose
\* index is not in skip: sorted(key=left) is stable.
LeftmostIndex(content_areas, skip) ==
    CHOOSE i \in (1..Len(content_areas)) \ skip :
        \A j \in (1..Len(content_areas)) \ skip :
            \/ content_areas[i].left < content_areas[j].left
            \/ content_areas[i].left = content_areas[j].left /\ i <= j

\* abs(a.top - b.top) < 0.5 (line 539); the double difference is just under
\* 0.5 in size for the tops listed, in either order.
tops_within_half_an_inch(top_a, top_b) ==
    LET rounds_under == {<<7, 2>>, <<14, 9>>, <<23, 18>>, <<41, 36>>,
                         <<82, 77>>}
    IN  \/ Abs(top_a - top_b) < 5
        \/ <<top_a, top_b>> \in rounds_under
        \/ <<top_b, top_a>> \in rounds_under

detect_section_pattern(content_areas) ==
    LET small_count == Len(SelectSeq(content_areas, is_small_box))
        first == LeftmostIndex(content_areas, {})
        second == LeftmostIndex(content_areas, {first})
    IN  IF Len(content_areas) = 1 THEN "single"
        ELSE IF small_count >= 3 THEN "grid"
        ELSE IF /\ Len(content_areas) >= 2
                /\ tops_within_half_an_inch(content_areas[first].top,
                                            content_areas[second].top)
             THEN "columns"
        ELSE "mixed"

infer_section_best_for(content_areas, pattern) ==
    IF pattern = "single"
    THEN IF is_large_box(content_areas[1]) THEN {"chart", "table", "bullets"}
         ELSE IF is_medium_box(content_areas[1]) THEN {"bullets", "pictogram"}
         ELSE {}
    ELSE IF pattern = "grid" THEN {"kpi_dashboard", "icon_grid"}
    ELSE IF pattern = "columns" THEN {"comparison", "bullets"}
    ELSE {}

section_best_for(section) ==
    infer_section_best_for(section.content_areas,
                           detect_section_pattern(section.content_areas))

\* One section (lines 862-867): the largest content placeholder decides.
single_section_story(largest) ==
    IF largest.area > 4000
    THEN IF aspect_over_three_halves(largest)
         THEN "data_visualization" ELSE "detailed_analysis"
    ELSE "focused_message"

\* areas = [sum(ph.area for ph in s['content_areas']) for s in
\* semantic_sections] (line 871), doubles.
section_areas(semantic_sections) ==
    [i \in 1..Len(semantic_sections) |->
        float_sum(AreaDoubles(semantic_sections[i].content_areas))]

\* abs(areas[0] - areas[1]) < 5 (line 872).
areas_within_five(areas) ==
    float_less(float_abs(float_sub(areas[1], areas[2])), float_of_int(5))

\* Mutant: the one-section rule is tried before the KPI grid.
infer_semantic_story_type_sections_first(semantic_sections, content_placeholders, kpi_grid) ==
    LET section_count == Len(semantic_sections)
    IN  IF section_count = 1
        THEN single_section_story(FirstLargest(content_placeholders))
        ELSE IF kpi_grid # NoGrid THEN "metrics_dashboard"
        ELSE IF section_count = 2
        THEN IF areas_within_five(section_areas(semantic_sections))
             THEN "balanced_comparison" ELSE "main_supporting"
        ELSE IF section_count = 3 THEN "three_stage_narrative"
        ELSE IF /\ Len(content_placeholders) >= 6
                /\ \A i \in 1..Len(content_placeholders) :
                      is_small_box(content_placeholders[i])
             THEN "feature_grid"
        ELSE IF /\ Len(SelectSeq(content_placeholders, is_large_box)) >= 1
                /\ Len(SelectSeq(content_placeholders, is_small_box)) >= 2
             THEN "hierarchical_story"
        ELSE "general_content"

infer_semantic_story_type(semantic_sections, content_placeholders, kpi_grid) ==
    LET section_count == Len(semantic_sections)
    IN  IF kpi_grid # NoGrid THEN "metrics_dashboard"
        ELSE IF section_count = 1
        THEN single_section_story(FirstLargest(content_placeholders))
        ELSE IF section_count = 2
        THEN IF areas_within_five(section_areas(semantic_sections))
             THEN "balanced_comparison" ELSE "main_supporting"
        ELSE IF section_count = 3 THEN "three_stage_narrative"
        ELSE IF /\ Len(content_placeholders) >= 6
                /\ \A i \in 1..Len(content_placeholders) :
                      is_small_box(content_placeholders[i])
             THEN "feature_grid"
        ELSE IF /\ Len(SelectSeq(content_placeholders, is_large_box)) >= 1
                /\ Len(SelectSeq(content_placeholders, is_small_box)) >= 2
             THEN "hierarchical_story"
        ELSE "general_content"

\* _calculate_content_capacity with the keys the matcher reads and those
\* that are whole numbers of the lengths; bullets.estimated_words,
\* int(area * 20) of a double product, is left out.  int() of the double
\* quotients: height / 0.3, width * 8 and width / 1.5 truncate to the exact
\* floor; height / 0.4 falls just under a whole number for the heights
\* listed, and int() gives one less.
calculate_content_capacity(content_placeholders, semantic_sections, kpi_grid) ==
    LET taller_than_an_inch(ph) == ph.height > 10
        rounds_under == {12, 24, 28, 48, 56, 76, 92, 96, 112, 116, 132}
        rows_of(height) == IF height \in rounds_under
                           THEN height \div 4 - 1 ELSE height \div 4
        medium_wide(ph) == is_medium_box(ph) /\ is_wide(ph)
        bullets_of(largest) ==
            [max_lines |-> largest.height \div 3,
             chars_per_line |-> (8 * largest.width) \div 10]
        table_of(largest) ==
            [max_cols |-> Max(2, largest.width \div 15),
             max_rows |-> Max(3, rows_of(largest.height))]
        text_areas == SelectSeq(content_placeholders, taller_than_an_inch)
        large_areas == SelectSeq(content_placeholders, is_large_box)
        medium_areas == SelectSeq(content_placeholders, medium_wide)
    IN  [bullets |->
            IF text_areas = <<>>
            THEN [max_lines |-> 0, chars_per_line |-> 0]
            ELSE bullets_of(FirstLargest(text_areas)),
         table |->
            IF content_placeholders = <<>>
            THEN [max_cols |-> 0, max_rows |-> 0]
            ELSE table_of(FirstLargest(content_placeholders)),
         chart |->
            IF large_areas = <<>>
            THEN [suitable |-> FALSE, min_area |-> 3000, available_area |-> 0]
            ELSE [suitable |-> TRUE, min_area |-> 3000,
                  available_area |-> FirstLargest(large_areas).area],
         kpis |-> [count |-> Len(kpi_grid.boxes)],
         pictograms |->
            IF medium_areas = <<>>
            THEN [suitable |-> FALSE, estimated_count |-> 0]
            ELSE [suitable |-> TRUE,
                  estimated_count |-> medium_areas[1].width \div 15],
         sections |-> Len(semantic_sections)]

\* Mutant: the three terms are not capped, only their sum is.
calculate_complexity_clamped_once(semantic_sections, content_placeholders) ==
    LET small_count == Len(SelectSeq(content_placeholders, is_small_box))
    IN  Min(100 * (Len(semantic_sections) * 15
                   + Len(content_placeholders) * 8
                   + small_count * 5),
            10000)

\* _calculate_complexity, in hundredths.
calculate_complexity(semantic_sections, content_placeholders) ==
    LET small_count == Len(SelectSeq(content_placeholders, is_small_box))
    IN  Min(100 * (Min(Len(semantic_sections) * 15, 40)
                   + Min(Len(content_placeholders) * 8, 40)
                   + Min(small_count * 5, 20)),
            10000)

\* max_deviation / avg_area * 100 if avg_area > 0 else 100 (line 706), for
\* the avg_area of line 703.
percent_of_mean(areas, avg_area) ==
    IF float_less(float_zero, avg_area)
    THEN float_mul(float_div(max_deviation(areas, avg_area), avg_area),
                   float_of_int(100))
    ELSE float_of_int(100)

\* Lines 703-706: the largest deviation from the mean area in percent of
\* the mean.
deviation_percent(areas) == percent_of_mean(areas, mean_area(areas))

\* Mutant: the deviation is not capped at 100 percent.
calculate_balance_uncapped(content_placeholders) ==
    IF content_placeholders = <<>> THEN float_zero
    ELSE float_sub(float_hundred,
                   deviation_percent(AreaDoubles(content_placeholders)))

\* _calculate_balance: 100 - min(deviation in percent, 100), or 0.0 without
\* content placeholders.
calculate_balance(content_placeholders) ==
    IF content_placeholders = <<>> THEN float_zero
    ELSE float_sub(float_hundred,
                   float_min(deviation_percent(
                                 AreaDoubles(content_placeholders)),
                             float_hundred))

assess_fill_difficulty(semantic_sections, content_placeholders) ==
    LET section_count == Len(semantic_sections)
        ph_count == Len(content_placeholders)
    IN  IF section_count <= 2 /\ ph_count <= 3 THEN "easy"
        ELSE IF section_count <= 4 /\ ph_count <= 6 THEN "medium"
        ELSE "hard"

\* _calculate_executive_suitability: the four terms are added to 0.0 one
\* after the other, and the sum is capped at 100.0.  complexity_score is
\* in hundredths.
calculate_executive_suitability(visual_balance, complexity_score, semantic_sections, story_type) ==
    float_min(
        float_sum(
            <<float_mul(float_div(visual_balance, float_hundred),
                        float_of_int(40))>>
            \o float_ints(
                   <<IF 3000 <= complexity_score /\ complexity_score <= 6000
                     THEN 30
                     ELSE IF complexity_score < 3000 THEN 20 ELSE 10,
                     IF story_type \in {"metrics_dashboard",
                                        "data_visualization",
                                        "balanced_comparison",
                                        "three_stage_narrative"}
                     THEN 20
                     ELSE IF story_type \in {"focused_message",
                                             "main_supporting"}
                     THEN 15 ELSE 5,
                     IF /\ 1 <= Len(semantic_sections)
                        /\ Len(semantic_sections) <= 3
                     THEN 10 ELSE 3>>)),
        float_hundred)

\* _recommend_content_density: bullets_recommended, the one key of the
\* dict that the matcher reads.  The word counts, int() of a sum of double
\* products times the density, are left out, and usable_area with them.
recommend_content_density(semantic_sections, story_type) ==
    LET n == Len(semantic_sections)
    IN  [bullets_recommended |->
            IF story_type = "metrics_dashboard" THEN 4 + n * 2
            ELSE IF story_type \in {"balanced_comparison",
                                    "three_stage_narrative"} THEN 6 + n * 3
            ELSE 8 + n * 4]

\* _has_visual_balance divides by the mean area of two or more placeholders.
has_visual_balance_raises(placeholders) ==
    Len(placeholders) >= 2 /\ SumSeq(Areas(placeholders)) = 0

infer_layout_type(has_chart, has_table, has_picture, content_count, text_count, section_count, kpi_grid) ==
    IF kpi_grid # NoGrid THEN "kpi_dashboard"
    ELSE IF has_chart THEN "chart_layout"
    ELSE IF has_table THEN "table_layout"
    ELSE IF has_picture THEN "image_layout"
    ELSE IF section_count >= 3 THEN "multi_section"
    ELSE IF section_count = 2 THEN "double_section"
    ELSE IF section_count = 1 THEN "single_section"
    ELSE IF text_count = 0 THEN "title_only"
    ELSE IF text_count = 1 THEN "single_column"
    ELSE IF text_count = 2 THEN "double_column"
    ELSE IF text_count = 3 THEN "triple_column"
    ELSE "multi_column"

\* _determine_best_use: the list without duplicates, as a set.
determine_best_use(has_chart, has_table, content_placeholders, spatial_groups, semantic_sections, kpi_grid) ==
    LET num_groups == Cardinality(spatial_groups)
        best_for ==
            (IF kpi_grid # NoGrid THEN {"kpi_dashboard", "metrics", "scorecard"}
             ELSE {})
            \cup (IF has_chart THEN {"chart"} ELSE {})
            \cup (IF has_table THEN {"table"} ELSE {})
            \cup UNION {section_best_for(semantic_sections[i]) :
                            i \in 1..Len(semantic_sections)}
            \cup (IF {"left_column", "right_column"} \subseteq spatial_groups
                  THEN {"comparison", "before_after"} ELSE {})
            \cup (IF num_groups = 3 THEN {"three_points", "process_steps"}
                  ELSE {})
            \cup (IF num_groups >= 4 /\ kpi_grid = NoGrid THEN {"icon_grid"}
                  ELSE {})
            \cup (IF SelectSeq(content_placeholders, is_medium_box) # <<>>
                  THEN {"pictogram"} ELSE {})
    IN  IF best_for = {} THEN {"bullets"} ELSE best_for

\* _analyze_single_layout raises when layout.placeholders cannot be read or
\* when _calculate_executive_score divides by a mean area of 0.
analyze_single_layout_raises(layout) ==
    \/ layout.bad
    \/ has_visual_balance_raises(content_placeholders_of(layout.placeholders))

\* The LayoutCapability _analyze_single_layout returns.
LayoutCapability(shapes, subtitle_placeholders, content_placeholders, text_placeholders, kpi_grid, spatial_groups, semantic_sections, story_type, complexity_score, visual_balance) ==
    [layout_type |->
        infer_layout_type(HasType(shapes, 10), HasType(shapes, 11),
                          HasType(shapes, 15), Len(content_placeholders),
                          Len(text_placeholders), Len(semantic_sections),
                          kpi_grid),
     best_for |->
        determine_best_use(HasType(shapes, 10), HasType(shapes, 11),
                           content_placeholders, spatial_groups,
                           semantic_sections, kpi_grid),
     subtitle_placeholders |-> subtitle_placeholders,
     content_placeholders |-> content_placeholders,
     semantic_sections |-> semantic_sections,
     kpi_grid |-> kpi_grid,
     spatial_groups |-> spatial_groups,
     content_capacity |->
        calculate_content_capacity(content_placeholders, semantic_sections,
                                   kpi_grid),
     complexity_score |-> complexity_score,
     visual_balance |-> visual_balance,
     fill_difficulty |->
        assess_fill_difficulty(semantic_sections, content_placeholders),
     semantic_story_type |-> story_type,
     executive_suitability |->
        calculate_executive_suitability(visual_balance, complexity_score,
                                        semantic_sections, story_type),
     content_density_recommendation |->
        recommend_content_density(semantic_sections, story_type)]

\* Lines 401-434: the story type, the complexity and the balance of the
\* placeholders once they are grouped.
analyze_grouped(shapes, subtitle_placeholders, content_placeholders, text_placeholders, kpi_grid, semantic_sections) ==
    LayoutCapability(
        shapes, subtitle_placeholders, content_placeholders,
        text_placeholders, kpi_grid,
        group_by_spatial_position(content_placeholders), semantic_sections,
        infer_semantic_story_type(semantic_sections, content_placeholders,
                                  kpi_grid),
        calculate_complexity(semantic_sections, content_placeholders),
        calculate_balance(content_placeholders))

\* Lines 393-400: the KPI grid and the semantic sections of the
\* placeholders once they are sorted into their lists.
analyze_placeholders(shapes, subtitle_placeholders, content_placeholders, text_placeholders) ==
    analyze_grouped(
        shapes, subtitle_placeholders, content_placeholders,
        text_placeholders, detect_kpi_grid(content_placeholders),
        group_placeholders_semantically(subtitle_placeholders,
                                        content_placeholders))

\* _analyze_single_layout: lines 331-391 sort the placeholders into their
\* lists.
analyze_single_layout(layout) ==
    analyze_placeholders(layout.placeholders,
                         subtitle_placeholders_of(layout.placeholders),
                         content_placeholders_of(layout.placeholders),
                         text_placeholders_of(layout.placeholders))

\* _create_fallback_layout: the dataclass defaults for everything it does
\* not pass.
create_fallback_layout ==
    [layout_type |-> "fallback",
     best_for |-> {"bullets"},
     subtitle_placeholders |-> <<>>,
     content_placeholders |-> <<>>,
     semantic_sections |-> <<>>,
     kpi_grid |-> NoGrid,
     spatial_groups |-> {},
     content_capacity |-> <<>>,
     complexity_score |-> 0,
     visual_balance |-> float_zero,
     fill_difficulty |-> "medium",
     semantic_story_type |-> "general_content",
     executive_suitability |-> float_zero,
     content_density_recommendation |-> <<>>]

\* Lines 250-265: the entry _analyze_all_layouts stores for a layout.
analyzed_entry(layout) ==
    IF analyze_single_layout_raises(layout) THEN create_fallback_layout
    ELSE analyze_single_layout(layout)

----------------------------------------------------------------------------
(* Slide layouts given to the analyzer.  Title = Shape(0, 1, 5, 3, 90, 10)  *)
(* is the title placeholder most of them start with.  Type ids: 1 TITLE,    *)
(* 2 BODY, 3 CENTER_TITLE, 4 SUBTITLE, 5 DATE, 10 CHART, 15 PICTURE.        *)

Title == Shape(0, 1, 5, 3, 90, 10)

Geometry_general == SlideLayout(<<Title, Shape(1, 2, 5, 15, 90, 50)>>)

Geometry_dataviz ==
    SlideLayout(<<Title, Shape(1, 4, 5, 14, 90, 4), Shape(2, 2, 5, 20, 90, 50)>>)

Geometry_dataviz2 ==
    SlideLayout(<<Title, Shape(1, 4, 5, 14, 90, 4), Shape(2, 2, 5, 20, 90, 45)>>)

Geometry_compare ==
    SlideLayout(<<Title,
                  Shape(1, 4, 5, 14, 40, 4), Shape(2, 2, 5, 20, 40, 40),
                  Shape(3, 4, 55, 14, 40, 4), Shape(4, 2, 55, 20, 40, 40)>>)

Geometry_three ==
    SlideLayout(<<Title,
                  Shape(1, 4, 5, 14, 30, 4), Shape(2, 2, 5, 20, 30, 40),
                  Shape(3, 4, 35, 14, 30, 4), Shape(4, 2, 35, 20, 30, 40),
                  Shape(5, 4, 65, 14, 30, 4), Shape(6, 2, 65, 20, 30, 40)>>)

Geometry_kpi ==
    SlideLayout(<<Title,
                  Shape(1, 2, 5, 20, 20, 10), Shape(2, 2, 30, 20, 20, 10),
                  Shape(3, 2, 5, 40, 20, 10), Shape(4, 2, 30, 40, 20, 10)>>)

Geometry_focused ==
    SlideLayout(<<Title, Shape(1, 4, 5, 14, 90, 4), Shape(2, 2, 5, 20, 80, 40)>>)

\* A chart and a picture placeholder of no width and height.
Geometry_zeroarea ==
    SlideLayout(<<Title, Shape(1, 10, 5, 20, 0, 0), Shape(2, 15, 30, 20, 0, 0)>>)

\* One picture placeholder of no width and height.
Geometry_zero_single == SlideLayout(<<Title, Shape(1, 15, 5, 20, 0, 0)>>)

\* Two rows of two picture placeholders of no width and height.
Geometry_kpi_zero ==
    SlideLayout(<<Title,
                  Shape(1, 15, 5, 20, 0, 0), Shape(2, 15, 30, 20, 0, 0),
                  Shape(3, 15, 5, 40, 0, 0), Shape(4, 15, 30, 40, 0, 0)>>)

\* A layout whose placeholders cannot be read.
Geometry_bad == [bad |-> TRUE, placeholders |-> <<>>]

\* One content placeholder of 10 x 5 inches (area 50, aspect ratio 2.0) and
\* nothing else.
Geometry_single50 == SlideLayout(<<Shape(1, 2, 0, 10, 100, 50)>>)

\* The same placeholder under a subtitle.
Geometry_titled50 ==
    SlideLayout(<<Shape(0, 4, 0, 5, 100, 4), Shape(1, 2, 0, 10, 100, 50)>>)

\* One section of 7 x 6 inches: area 42, aspect ratio below 1.5.
Geometry_detailed ==
    SlideLayout(<<Title, Shape(1, 4, 5, 10, 70, 4), Shape(2, 2, 5, 15, 70, 60)>>)

\* One section of 9.5 x 5.5 inches: area 52.25.
Geometry_bigviz ==
    SlideLayout(<<Title, Shape(1, 4, 5, 9, 90, 4), Shape(2, 2, 5, 15, 95, 55)>>)

\* One section of 7 x 2 inches, medium and wide.
Geometry_picto ==
    SlideLayout(<<Title, Shape(1, 4, 5, 14, 90, 4), Shape(2, 2, 5, 20, 70, 20)>>)

\* Two sections of 12 and 8 square inches (difference 4).
Geometry_near_pair ==
    SlideLayout(<<Title,
                  Shape(1, 4, 5, 14, 40, 4), Shape(2, 2, 5, 20, 40, 30),
                  Shape(3, 4, 55, 14, 40, 4), Shape(4, 2, 55, 20, 40, 20)>>)

\* Two sections of 10 and 15 square inches (difference exactly 5).
Geometry_five_apart ==
    SlideLayout(<<Title,
                  Shape(1, 4, 5, 14, 40, 4), Shape(2, 2, 5, 20, 50, 20),
                  Shape(3, 4, 55, 14, 40, 4), Shape(4, 2, 55, 20, 50, 30)>>)

\* Two sections of 5 and 20 square inches.
Geometry_mainsup ==
    SlideLayout(<<Title,
                  Shape(1, 4, 5, 14, 25, 4), Shape(2, 2, 5, 20, 25, 20),
                  Shape(3, 4, 35, 14, 50, 4), Shape(4, 2, 35, 20, 50, 40)>>)

\* Six boxes of 1.5 x 1.5 inches in one row, no subtitles.
Geometry_feature_grid ==
    SlideLayout(<<Title,
                  Shape(1, 2, 5, 20, 15, 15), Shape(2, 2, 20, 20, 15, 15),
                  Shape(3, 2, 35, 20, 15, 15), Shape(4, 2, 50, 20, 15, 15),
                  Shape(5, 2, 65, 20, 15, 15), Shape(6, 2, 80, 20, 15, 15)>>)

\* One large area of 6 x 4 inches and two boxes of 2 x 1, no subtitles.
Geometry_hierarchy ==
    SlideLayout(<<Title,
                  Shape(1, 2, 5, 20, 60, 40), Shape(2, 2, 70, 20, 20, 10),
                  Shape(3, 2, 70, 40, 20, 10)>>)

\* Five boxes of 2 x 1 inches (area 2) in two rows, of three and of two.
Geometry_kpi5 ==
    SlideLayout(<<Title,
                  Shape(1, 2, 5, 20, 20, 10), Shape(2, 2, 30, 20, 20, 10),
                  Shape(3, 2, 55, 20, 20, 10), Shape(4, 2, 5, 40, 20, 10),
                  Shape(5, 2, 30, 40, 20, 10)>>)

\* The same boxes, the short row first.
Geometry_kpi5_short_first ==
    SlideLayout(<<Title,
                  Shape(1, 2, 5, 20, 20, 10), Shape(2, 2, 30, 20, 20, 10),
                  Shape(3, 2, 5, 40, 20, 10), Shape(4, 2, 30, 40, 20, 10),
                  Shape(5, 2, 55, 40, 20, 10)>>)

\* Four boxes of 2 x 1 inches in one row.
Geometry_kpi_one_row ==
    SlideLayout(<<Title,
                  Shape(1, 2, 5, 20, 20, 10), Shape(2, 2, 30, 20, 20, 10),
                  Shape(3, 2, 55, 20, 20, 10), Shape(4, 2, 80, 20, 20, 10)>>)

\* Four boxes of 2 x 1 inches in rows of three and of one.
Geometry_kpi_lonely ==
    SlideLayout(<<Title,
                  Shape(1, 2, 5, 20, 20, 10), Shape(2, 2, 30, 20, 20, 10),
                  Shape(3, 2, 55, 20, 20, 10), Shape(4, 2, 5, 40, 20, 10)>>)

\* Two rows of two boxes of areas 1, 1, 1 and 2: the last is 60% off the
\* mean area 1.25.
Geometry_kpi_uneven ==
    SlideLayout(<<Title,
                  Shape(1, 2, 5, 20, 10, 10), Shape(2, 2, 30, 20, 10, 10),
                  Shape(3, 2, 5, 40, 10, 10), Shape(4, 2, 30, 40, 20, 10)>>)

\* Three boxes of 2 x 1 inches and one area of 3 x 2.
Geometry_kpi_three ==
    SlideLayout(<<Title,
                  Shape(1, 2, 5, 20, 20, 10), Shape(2, 2, 30, 20, 20, 10),
                  Shape(3, 2, 5, 40, 20, 10), Shape(4, 2, 30, 40, 30, 20)>>)

\* One section of 3 x 1 inches: area 3.0, medium.
Geometry_three_square_inches ==
    SlideLayout(<<Title, Shape(1, 4, 5, 14, 30, 4), Shape(2, 2, 5, 20, 30, 10)>>)

\* A KPI grid of four boxes under one subtitle.
Geometry_kpi_titled ==
    SlideLayout(<<Title, Shape(1, 4, 5, 14, 90, 4),
                  Shape(2, 2, 5, 20, 20, 10), Shape(3, 2, 30, 20, 20, 10),
                  Shape(4, 2, 5, 40, 20, 10), Shape(5, 2, 30, 40, 20, 10)>>)

\* A title and a date only.
Geometry_title_only == SlideLayout(<<Title, Shape(1, 5, 5, 70, 20, 4)>>)

\* A centred title with a subtitle.
Geometry_title_slide ==
    SlideLayout(<<Shape(0, 3, 5, 20, 90, 15), Shape(1, 4, 5, 40, 90, 10)>>)

\* A body placeholder of 0.4 inch height, taken for a subtitle, over one of
\* 5 x 3 inches (area 15.0, large).
Geometry_body_heading ==
    SlideLayout(<<Title, Shape(1, 2, 5, 14, 90, 4), Shape(2, 2, 5, 20, 50, 30)>>)

\* Two subtitles one above the other, both within an inch above the body.
Geometry_stacked_subtitles ==
    SlideLayout(<<Title, Shape(1, 4, 5, 12, 90, 4), Shape(2, 4, 5, 17, 90, 4),
                  Shape(3, 2, 5, 21, 90, 40)>>)

\* The same with the lower subtitle first in the placeholder order.
Geometry_lower_subtitle_first ==
    SlideLayout(<<Title, Shape(1, 4, 5, 17, 90, 4), Shape(2, 4, 5, 12, 90, 4),
                  Shape(3, 2, 5, 21, 90, 40)>>)

\* One body 1.5 inches to the right of the subtitle and half an inch below
\* it, one body exactly one inch below it.
Geometry_section_edges ==
    SlideLayout(<<Title, Shape(1, 4, 5, 10, 40, 4), Shape(2, 2, 20, 15, 40, 30),
                  Shape(3, 2, 5, 20, 40, 30)>>)

\* A chart, a table and a picture placeholder, a body of the shape of a
\* heading (4 x 0.4) and a body of 4 x 3 inches.
Geometry_media ==
    SlideLayout(<<Title, Shape(1, 10, 5, 15, 40, 30), Shape(2, 11, 50, 15, 40, 30),
                  Shape(3, 15, 5, 50, 40, 30), Shape(4, 2, 50, 46, 40, 4),
                  Shape(5, 2, 50, 50, 40, 30)>>)

\* One section whose body is 8.4 x 5.6 inches: the double 8.4 / 5.6 is
\* 1.5000000000000002, and 5.6 / 0.4 is 13.999999999999998.
Geometry_three_to_two ==
    SlideLayout(<<Title, Shape(1, 4, 5, 14, 90, 4), Shape(2, 2, 5, 15, 84, 56)>>)

\* A body of 2.1 x 0.7 inches: the double 2.1 / 0.7 is 3.0000000000000004.
Geometry_thin_body == SlideLayout(<<Title, Shape(1, 2, 5, 15, 21, 7)>>)

\* A chart placeholder that takes its position and size from the master,
\* and a body.
Geometry_inherited_chart ==
    SlideLayout(<<Title, ShapeWithoutSize(1, 10), Shape(2, 2, 5, 15, 90, 50)>>)

\* A subtitle at (0.7, 0.4), a body 1.5 inches to its right, for which the
\* double 2.2 - 0.7 is 1.5000000000000002, and a body an inch below it, for
\* which the double 1.4 - 0.4 is 0.9999999999999999.
Geometry_rounded_distances ==
    SlideLayout(<<Shape(1, 4, 7, 4, 40, 4), Shape(2, 2, 22, 10, 40, 30),
                  Shape(3, 2, 7, 14, 40, 30)>>)

\* A section of two bodies whose tops, 0.2 and 0.7, are half an inch
\* apart: the double 0.7 - 0.2 is 0.49999999999999994.
Geometry_half_inch_apart ==
    SlideLayout(<<Shape(1, 4, 5, 0, 40, 2), Shape(2, 2, 5, 2, 40, 30),
                  Shape(3, 2, 10, 7, 40, 30)>>)

\* Four boxes of 1.4, 1.4, 2.6 and 2.6 square inches in two rows: each is
\* 30% of the mean 2.0 away from it as numbers, and a little more as
\* doubles (2.0 - 1.4 is 0.6000000000000001, 2.0 * 0.3 is 0.6).
Geometry_kpi_thirty_percent ==
    SlideLayout(<<Shape(0, 2, 5, 20, 14, 10), Shape(1, 2, 30, 20, 14, 10),
                  Shape(2, 2, 5, 40, 26, 10), Shape(3, 2, 30, 40, 26, 10)>>)

\* The same with three boxes of 1.8 and one of 2.6 square inches.
Geometry_kpi_thirty_percent_three ==
    SlideLayout(<<Title,
                  Shape(1, 2, 5, 20, 18, 10), Shape(2, 2, 30, 20, 18, 10),
                  Shape(3, 2, 5, 40, 18, 10), Shape(4, 2, 30, 40, 26, 10)>>)

\* A subtitle and two content areas below it that have the same idx.
Geometry_shared_idx ==
    SlideLayout(<<Shape(1, 4, 5, 14, 40, 4), Shape(2, 2, 5, 20, 40, 30),
                  Shape(2, 2, 5, 22, 40, 30)>>)

\* Two sections; the subtitle and the content area of the first have the
\* same idx.
Geometry_subtitle_idx_shared ==
    SlideLayout(<<Title,
                  Shape(1, 4, 5, 14, 40, 4), Shape(1, 2, 5, 20, 40, 30),
                  Shape(3, 4, 50, 14, 40, 4), Shape(4, 2, 50, 20, 40, 30)>>)

\* Two sections; the subtitle of the second has the idx of the content area
\* of the first.
Geometry_next_subtitle_idx_shared ==
    SlideLayout(<<Title,
                  Shape(1, 4, 5, 14, 40, 4), Shape(2, 2, 5, 20, 40, 30),
                  Shape(2, 4, 50, 14, 40, 4), Shape(4, 2, 50, 20, 40, 30)>>)

GeometryPool ==
    {Geometry_subtitle_idx_shared, Geometry_next_subtitle_idx_shared,
     Geometry_kpi_thirty_percent, Geometry_kpi_thirty_percent_three,
     Geometry_shared_idx, Geometry_three_to_two, Geometry_thin_body, Geometry_inherited_chart,
     Geometry_rounded_distances, Geometry_half_inch_apart,
     Geometry_media, Geometry_stacked_subtitles, Geometry_lower_subtitle_first,
     Geometry_section_edges, Geometry_general, Geometry_dataviz, Geometry_dataviz2, Geometry_compare,
     Geometry_three, Geometry_kpi, Geometry_focused, Geometry_zeroarea,
     Geometry_bad, Geometry_single50, Geometry_titled50, Geometry_detailed,
     Geometry_bigviz, Geometry_picto, Geometry_near_pair,
     Geometry_five_apart, Geometry_mainsup, Geometry_feature_grid,
     Geometry_hierarchy, Geometry_kpi5, Geometry_kpi5_short_first,
     Geometry_kpi_one_row, Geometry_kpi_lonely, Geometry_kpi_uneven,
     Geometry_kpi_three, Geometry_kpi_titled, Geometry_title_only,
     Geometry_title_slide, Geometry_body_heading,
     Geometry_three_square_inches, Geometry_zero_single,
     Geometry_kpi_zero}

\* The analysis is a function of the slide layout alone: the entries of the
\* slide layouts of GeometryPool are computed once, as a table, and looked
\* up after.
RECURSIVE entry_from(_, _)
PoolEntries ==
    {<<layout, entry_from(layout, FALSE)>> : layout \in GeometryPool}

\* The entry of a slide layout: read from the table when asked to and the
\* table has it, computed otherwise.
entry_from(layout, from_table) ==
    IF from_table /\ layout \in GeometryPool
    THEN (CHOOSE pair \in PoolEntries : pair[1] = layout)[2]
    ELSE analyzed_entry(layout)

entry_of(layout) == entry_from(layout, TRUE)

\* The same for the grid _detect_kpi_grid finds on the content placeholders
\* of a readable slide layout.
RECURSIVE grid_from(_, _)
PoolGrids ==
    {<<layout, grid_from(layout, FALSE)>> :
        layout \in {readable \in GeometryPool : ~readable.bad}}

grid_from(layout, from_table) ==
    IF from_table /\ layout \in GeometryPool
    THEN (CHOOSE pair \in PoolGrids : pair[1] = layout)[2]
    ELSE detect_kpi_grid(content_placeholders_of(layout.placeholders))

grid_of(layout) == grid_from(layout, TRUE)

----------------------------------------------------------------------------
(* Analyzed layouts.  Each record is the LayoutCapability that              *)
(* TemplateAnalyzer builds for the placeholder geometry named above it.     *)

\* _analyze_single_layout on the placeholders (idx, type_id, left, top,
\* width, height in inches):
\*   (0, 1, 0.5, 0.3, 9, 1), (1, 2, 0.5, 1.5, 9, 5)
Layout_general ==
    [layout_type |-> "single_column",
     best_for |-> {"bullets"},
     subtitle_placeholders |-> <<>>,
     content_placeholders |-> <<
        [idx |-> 1, left |-> 5, top |-> 15, width |-> 90, height |-> 50, area |-> 4500]>>,
     semantic_sections |-> <<>>,
     kpi_grid |-> NoGrid,
     spatial_groups |-> {"center"},
     content_capacity |->
        [bullets |-> [max_lines |-> 16, chars_per_line |-> 72],
         table |-> [max_cols |-> 6, max_rows |-> 12],
         chart |-> [suitable |-> TRUE, min_area |-> 3000,
                   available_area |-> 4500],
         kpis |-> [count |-> 0],
         pictograms |-> [suitable |-> FALSE, estimated_count |-> 0],
         sections |-> 0],
     complexity_score |-> 800,
     visual_balance |-> float_of_int(100),
     fill_difficulty |-> "easy",
     semantic_story_type |-> "general_content",
     executive_suitability |-> float_of_int(68),
     content_density_recommendation |->
        [bullets_recommended |-> 8]]

\* _analyze_single_layout on the placeholders (idx, type_id, left, top,
\* width, height in inches):
\*   (0, 1, 0.5, 0.3, 9, 1), (1, 4, 0.5, 1.4, 9, 0.4), (2, 2, 0.5, 2.0, 9, 5)
Layout_dataviz ==
    [layout_type |-> "single_section",
     best_for |-> {"bullets", "chart", "table"},
     subtitle_placeholders |-> <<
        [idx |-> 1, left |-> 5, top |-> 14, width |-> 90, height |-> 4, area |-> 360]>>,
     content_placeholders |-> <<
        [idx |-> 2, left |-> 5, top |-> 20, width |-> 90, height |-> 50, area |-> 4500]>>,
     semantic_sections |-> <<
        [subtitle |-> 1,
         content_areas |-> <<
            [idx |-> 2, left |-> 5, top |-> 20, width |-> 90, height |-> 50, area |-> 4500]>>]>>,
     kpi_grid |-> NoGrid,
     spatial_groups |-> {"center"},
     content_capacity |->
        [bullets |-> [max_lines |-> 16, chars_per_line |-> 72],
         table |-> [max_cols |-> 6, max_rows |-> 12],
         chart |-> [suitable |-> TRUE, min_area |-> 3000,
                   available_area |-> 4500],
         kpis |-> [count |-> 0],
         pictograms |-> [suitable |-> FALSE, estimated_count |-> 0],
         sections |-> 1],
     complexity_score |-> 2300,
     visual_balance |-> float_of_int(100),
     fill_difficulty |-> "easy",
     semantic_story_type |-> "data_visualization",
     executive_suitability |-> float_of_int(90),
     content_density_recommendation |->
        [bullets_recommended |-> 12]]

\* _analyze_single_layout on the placeholders (idx, type_id, left, top,
\* width, height in inches):
\*   (0, 1, 0.5, 0.3, 9, 1), (1, 4, 0.5, 1.4, 9, 0.4), (2, 2, 0.5, 2.0, 9,
\*   4.5)
Layout_dataviz2 ==
    [layout_type |-> "single_section",
     best_for |-> {"bullets", "chart", "table"},
     subtitle_placeholders |-> <<
        [idx |-> 1, left |-> 5, top |-> 14, width |-> 90, height |-> 4, area |-> 360]>>,
     content_placeholders |-> <<
        [idx |-> 2, left |-> 5, top |-> 20, width |-> 90, height |-> 45, area |-> 4050]>>,
     semantic_sections |-> <<
        [subtitle |-> 1,
         content_areas |-> <<
            [idx |-> 2, left |-> 5, top |-> 20, width |-> 90, height |-> 45, area |-> 4050]>>]>>,
     kpi_grid |-> NoGrid,
     spatial_groups |-> {"center"},
     content_capacity |->
        [bullets |-> [max_lines |-> 15, chars_per_line |-> 72],
         table |-> [max_cols |-> 6, max_rows |-> 11],
         chart |-> [suitable |-> TRUE, min_area |-> 3000,
                   available_area |-> 4050],
         kpis |-> [count |-> 0],
         pictograms |-> [suitable |-> FALSE, estimated_count |-> 0],
         sections |-> 1],
     complexity_score |-> 2300,
     visual_balance |-> float_of_int(100),
     fill_difficulty |-> "easy",
     semantic_story_type |-> "data_visualization",
     executive_suitability |-> float_of_int(90),
     content_density_recommendation |->
        [bullets_recommended |-> 12]]

\* _analyze_single_layout on the placeholders (idx, type_id, left, top,
\* width, height in inches):
\*   (0, 1, 0.5, 0.3, 9, 1), (1, 4, 0.5, 1.4, 4, 0.4), (2, 2, 0.5, 2.0, 4,
\*   4), (3, 4, 5.5, 1.4, 4, 0.4), (4, 2, 5.5, 2.0, 4, 4)
Layout_compare ==
    [layout_type |-> "double_section",
     best_for |-> {"before_after", "bullets", "chart", "comparison", "table"},
     subtitle_placeholders |-> <<
        [idx |-> 1, left |-> 5, top |-> 14, width |-> 40, height |-> 4, area |-> 160],
        [idx |-> 3, left |-> 55, top |-> 14, width |-> 40, height |-> 4, area |-> 160]>>,
     content_placeholders |-> <<
        [idx |-> 2, left |-> 5, top |-> 20, width |-> 40, height |-> 40, area |-> 1600],
        [idx |-> 4, left |-> 55, top |-> 20, width |-> 40, height |-> 40, area |-> 1600]>>,
     semantic_sections |-> <<
        [subtitle |-> 1,
         content_areas |-> <<
            [idx |-> 2, left |-> 5, top |-> 20, width |-> 40, height |-> 40, area |-> 1600]>>],
        [subtitle |-> 3,
         content_areas |-> <<
            [idx |-> 4, left |-> 55, top |-> 20, width |-> 40, height |-> 40, area |-> 1600]>>]>>,
     kpi_grid |-> NoGrid,
     spatial_groups |-> {"left_column", "right_column"},
     content_capacity |->
        [bullets |-> [max_lines |-> 13, chars_per_line |-> 32],
         table |-> [max_cols |-> 2, max_rows |-> 10],
         chart |-> [suitable |-> TRUE, min_area |-> 3000,
                   available_area |-> 1600],
         kpis |-> [count |-> 0],
         pictograms |-> [suitable |-> FALSE, estimated_count |-> 0],
         sections |-> 2],
     complexity_score |-> 4600,
     visual_balance |-> float_of_int(100),
     fill_difficulty |-> "easy",
     semantic_story_type |-> "balanced_comparison",
     executive_suitability |-> float_of_int(100),
     content_density_recommendation |->
        [bullets_recommended |-> 12]]

\* _analyze_single_layout on the placeholders (idx, type_id, left, top,
\* width, height in inches):
\*   (0, 1, 0.5, 0.3, 9, 1), (1, 4, 0.5, 1.4, 3, 0.4), (2, 2, 0.5, 2.0, 3,
\*   4), (3, 4, 3.5, 1.4, 3, 0.4), (4, 2, 3.5, 2.0, 3, 4), (5, 4, 6.5, 1.4,
\*   3, 0.4), (6, 2, 6.5, 2.0, 3, 4)
Layout_three ==
    [layout_type |-> "multi_section",
     best_for |-> {"before_after", "bullets", "comparison", "pictogram",
                  "process_steps", "three_points"},
     subtitle_placeholders |-> <<
        [idx |-> 1, left |-> 5, top |-> 14, width |-> 30, height |-> 4, area |-> 120],
        [idx |-> 3, left |-> 35, top |-> 14, width |-> 30, height |-> 4, area |-> 120],
        [idx |-> 5, left |-> 65, top |-> 14, width |-> 30, height |-> 4, area |-> 120]>>,
     content_placeholders |-> <<
        [idx |-> 2, left |-> 5, top |-> 20, width |-> 30, height |-> 40, area |-> 1200],
        [idx |-> 4, left |-> 35, top |-> 20, width |-> 30, height |-> 40, area |-> 1200],
        [idx |-> 6, left |-> 65, top |-> 20, width |-> 30, height |-> 40, area |-> 1200]>>,
     semantic_sections |-> <<
        [subtitle |-> 1,
         content_areas |-> <<
            [idx |-> 2, left |-> 5, top |-> 20, width |-> 30, height |-> 40, area |-> 1200]>>],
        [subtitle |-> 3,
         content_areas |-> <<
            [idx |-> 4, left |-> 35, top |-> 20, width |-> 30, height |-> 40, area |-> 1200]>>],
        [subtitle |-> 5,
         content_areas |-> <<
            [idx |-> 6, left |-> 65, top |-> 20, width |-> 30, height |-> 40, area |-> 1200]>>]>>,
     kpi_grid |-> NoGrid,
     spatial_groups |-> {"center_column", "left_column", "right_column"},
     content_capacity |->
        [bullets |-> [max_lines |-> 13, chars_per_line |-> 24],
         table |-> [max_cols |-> 2, max_rows |-> 10],
         chart |-> [suitable |-> FALSE, min_area |-> 3000,
                   available_area |-> 0],
         kpis |-> [count |-> 0],
         pictograms |-> [suitable |-> FALSE, estimated_count |-> 0],
         sections |-> 3],
     complexity_score |-> 6400,
     visual_balance |-> float_of_int(100),
     fill_difficulty |-> "medium",
     semantic_story_type |-> "three_stage_narrative",
     executive_suitability |-> float_of_int(80),
     content_density_recommendation |->
        [bullets_recommended |-> 15]]

\* _analyze_single_layout on the placeholders (idx, type_id, left, top,
\* width, height in inches):
\*   (0, 1, 0.5, 0.3, 9, 1), (1, 2, 0.5, 2.0, 2, 1), (2, 2, 3, 2.0, 2, 1),
\*   (3, 2, 0.5, 4.0, 2, 1), (4, 2, 3, 4.0, 2, 1)
Layout_kpi ==
    [layout_type |-> "kpi_dashboard",
     best_for |-> {"before_after", "comparison", "kpi_dashboard", "metrics",
                  "scorecard"},
     subtitle_placeholders |-> <<>>,
     content_placeholders |-> <<
        [idx |-> 1, left |-> 5, top |-> 20, width |-> 20, height |-> 10, area |-> 200],
        [idx |-> 2, left |-> 30, top |-> 20, width |-> 20, height |-> 10, area |-> 200],
        [idx |-> 3, left |-> 5, top |-> 40, width |-> 20, height |-> 10, area |-> 200],
        [idx |-> 4, left |-> 30, top |-> 40, width |-> 20, height |-> 10, area |-> 200]>>,
     semantic_sections |-> <<>>,
     kpi_grid |-> [boxes |-> <<1, 2, 3, 4>>, rows |-> 2, cols |-> 2],
     spatial_groups |-> {"left_column", "right_column"},
     content_capacity |->
        [bullets |-> [max_lines |-> 0, chars_per_line |-> 0],
         table |-> [max_cols |-> 2, max_rows |-> 3],
         chart |-> [suitable |-> FALSE, min_area |-> 3000,
                   available_area |-> 0],
         kpis |-> [count |-> 4],
         pictograms |-> [suitable |-> FALSE, estimated_count |-> 0],
         sections |-> 0],
     complexity_score |-> 5200,
     visual_balance |-> float_of_int(100),
     fill_difficulty |-> "medium",
     semantic_story_type |-> "metrics_dashboard",
     executive_suitability |-> float_of_int(93),
     content_density_recommendation |->
        [bullets_recommended |-> 4]]

\* _analyze_single_layout on the placeholders (idx, type_id, left, top,
\* width, height in inches):
\*   (0, 1, 0.5, 0.3, 9, 1), (1, 4, 0.5, 1.4, 9, 0.4), (2, 2, 0.5, 2.0, 8, 4)
Layout_focused ==
    [layout_type |-> "single_section",
     best_for |-> {"bullets", "chart", "table"},
     subtitle_placeholders |-> <<
        [idx |-> 1, left |-> 5, top |-> 14, width |-> 90, height |-> 4, area |-> 360]>>,
     content_placeholders |-> <<
        [idx |-> 2, left |-> 5, top |-> 20, width |-> 80, height |-> 40, area |-> 3200]>>,
     semantic_sections |-> <<
        [subtitle |-> 1,
         content_areas |-> <<
            [idx |-> 2, left |-> 5, top |-> 20, width |-> 80, height |-> 40, area |-> 3200]>>]>>,
     kpi_grid |-> NoGrid,
     spatial_groups |-> {"center"},
     content_capacity |->
        [bullets |-> [max_lines |-> 13, chars_per_line |-> 64],
         table |-> [max_cols |-> 5, max_rows |-> 10],
         chart |-> [suitable |-> TRUE, min_area |-> 3000,
                   available_area |-> 3200],
         kpis |-> [count |-> 0],
         pictograms |-> [suitable |-> FALSE, estimated_count |-> 0],
         sections |-> 1],
     complexity_score |-> 2300,
     visual_balance |-> float_of_int(100),
     fill_difficulty |-> "easy",
     semantic_story_type |-> "focused_message",
     executive_suitability |-> float_of_int(85),
     content_density_recommendation |->
        [bullets_recommended |-> 12]]

\* _analyze_single_layout on the placeholders (idx, type_id, left, top,
\* width, height in inches):
\*   (0, 1, 0.5, 0.3, 9, 1), (1, 10, 0.5, 2.0, 0, 0), (2, 15, 3, 2.0, 0, 0)
Layout_zeroarea ==
    [layout_type |-> "fallback",
     best_for |-> {"bullets"},
     subtitle_placeholders |-> <<>>,
     content_placeholders |-> <<>>,
     semantic_sections |-> <<>>,
     kpi_grid |-> NoGrid,
     spatial_groups |-> {},
     content_capacity |-> <<>>,
     complexity_score |-> 0,
     visual_balance |-> float_zero,
     fill_difficulty |-> "medium",
     semantic_story_type |-> "general_content",
     executive_suitability |-> float_zero,
     content_density_recommendation |-> <<>>]


\* analyzer.layouts of a template: layout index (from 0) -> LayoutCapability
Template(ls) == [i \in 0..(Len(ls) - 1) |-> ls[i + 1]]

\* What the analysis makes of Geometry_feature_grid.
Layout_feature_grid ==
    [layout_type |-> "multi_column",
     best_for |-> {"icon_grid"},
     subtitle_placeholders |-> <<>>,
     content_placeholders |-> <<
        [idx |-> 1, left |-> 5, top |-> 20, width |-> 15, height |-> 15, area |-> 225],
        [idx |-> 2, left |-> 20, top |-> 20, width |-> 15, height |-> 15, area |-> 225],
        [idx |-> 3, left |-> 35, top |-> 20, width |-> 15, height |-> 15, area |-> 225],
        [idx |-> 4, left |-> 50, top |-> 20, width |-> 15, height |-> 15, area |-> 225],
        [idx |-> 5, left |-> 65, top |-> 20, width |-> 15, height |-> 15, area |-> 225],
        [idx |-> 6, left |-> 80, top |-> 20, width |-> 15, height |-> 15, area |-> 225]>>,
     semantic_sections |-> <<>>,
     kpi_grid |-> NoGrid,
     spatial_groups |-> {"cell_1", "cell_2", "cell_3", "cell_4", "cell_5",
                        "cell_6"},
     content_capacity |->
        [bullets |-> [max_lines |-> 5, chars_per_line |-> 12],
         table |-> [max_cols |-> 2, max_rows |-> 3],
         chart |-> [suitable |-> FALSE, min_area |-> 3000,
                   available_area |-> 0],
         kpis |-> [count |-> 0],
         pictograms |-> [suitable |-> FALSE, estimated_count |-> 0],
         sections |-> 0],
     complexity_score |-> 6000,
     visual_balance |-> float_of_int(100),
     fill_difficulty |-> "medium",
     semantic_story_type |-> "feature_grid",
     executive_suitability |-> float_of_int(78),
     content_density_recommendation |->
        [bullets_recommended |-> 8]]

\* What the analysis makes of Geometry_hierarchy.
Layout_hierarchy ==
    [layout_type |-> "triple_column",
     best_for |-> {"before_after", "comparison"},
     subtitle_placeholders |-> <<>>,
     content_placeholders |-> <<
        [idx |-> 1, left |-> 5, top |-> 20, width |-> 60, height |-> 40, area |-> 2400],
        [idx |-> 2, left |-> 70, top |-> 20, width |-> 20, height |-> 10, area |-> 200],
        [idx |-> 3, left |-> 70, top |-> 40, width |-> 20, height |-> 10, area |-> 200]>>,
     semantic_sections |-> <<>>,
     kpi_grid |-> NoGrid,
     spatial_groups |-> {"left_column", "right_column"},
     content_capacity |->
        [bullets |-> [max_lines |-> 13, chars_per_line |-> 48],
         table |-> [max_cols |-> 4, max_rows |-> 10],
         chart |-> [suitable |-> TRUE, min_area |-> 3000,
                   available_area |-> 2400],
         kpis |-> [count |-> 0],
         pictograms |-> [suitable |-> FALSE, estimated_count |-> 0],
         sections |-> 0],
     complexity_score |-> 3400,
     visual_balance |-> float_zero,
     fill_difficulty |-> "easy",
     semantic_story_type |-> "hierarchical_story",
     executive_suitability |-> float_of_int(38),
     content_density_recommendation |->
        [bullets_recommended |-> 8]]

Template_standard ==
    Template(<<Layout_general, Layout_dataviz, Layout_compare, Layout_three,
               Layout_kpi, Layout_focused>>)
Template_two_viz == Template(<<Layout_dataviz, Layout_dataviz2>>)
Template_with_fallback == Template(<<Layout_general, Layout_zeroarea>>)
Template_wide ==
    Template(<<Layout_dataviz, Layout_dataviz2, Layout_compare, Layout_three,
               Layout_focused, Layout_general>>)
Template_empty == Template(<<>>)

\* A template of the slide layouts Geometry_feature_grid and
\* Geometry_hierarchy, whose executive_suitability is 78.0 and 38.0: the
\* story-aware scores 65 + 15.6 - 20 and 43 + 7.6 + 10 of its two layouts
\* for three bullets are equal as numbers and differ as doubles.
Template_grid_hierarchy == Template(<<Layout_feature_grid, Layout_hierarchy>>)

----------------------------------------------------------------------------
(* Payloads. *)

Payload_bullets3 ==
    [chart |-> FALSE, table |-> NoTable,
     bullet_points |-> <<Str(40), Str(40), Str(40)>>]
Payload_bullets12 ==
    [chart |-> FALSE, table |-> NoTable,
     bullet_points |-> <<Str(60), Str(60), Str(60), Str(60), Str(60), Str(60),
                         Str(120), Str(120), Str(120)>>]
Payload_chart ==
    [chart |-> TRUE, table |-> NoTable, bullet_points |-> <<>>]
Payload_table ==
    [chart |-> FALSE, table |-> [present |-> TRUE, is_dict |-> TRUE, headers |-> 4,
                                  rows |-> 6],
     bullet_points |-> <<>>]
\* 'table': None beside three bullets.
Payload_table_none ==
    [chart |-> FALSE,
     table |-> [present |-> FALSE, is_dict |-> FALSE, headers |-> 0,
                rows |-> 0],
     bullet_points |-> <<Str(40), Str(40), Str(40)>>]
\* 'table': a list of rows instead of a dict.
Payload_table_list ==
    [chart |-> FALSE,
     table |-> [present |-> TRUE, is_dict |-> FALSE, headers |-> 0,
                rows |-> 0],
     bullet_points |-> <<>>]
\* A dict followed by a string.
Payload_dict_then_string ==
    [chart |-> FALSE, table |-> NoTable,
     bullet_points |-> <<Dict(25, <<Str(30), Str(30)>>), Str(40)>>]
Payload_compare2 ==
    [chart |-> FALSE, table |-> NoTable,
     bullet_points |-> <<Dict(25, <<Str(30), Str(30)>>),
                         Dict(25, <<Str(30), Str(30)>>)>>]
Payload_compare1 ==
    [chart |-> FALSE, table |-> NoTable,
     bullet_points |-> <<Dict(25, <<Str(30), Str(30)>>)>>]
Payload_compare3 ==
    [chart |-> FALSE, table |-> NoTable,
     bullet_points |-> <<Dict(25, <<Str(30)>>), Dict(25, <<Str(30)>>),
                         Dict(25, <<Str(30)>>)>>]
Payload_kpi4 ==
    [chart |-> FALSE, table |-> NoTable,
     bullet_points |-> <<Dict(8, <<Str(10)>>), Dict(8, <<Str(10)>>),
                         Dict(8, <<Str(10)>>), Dict(8, <<Str(10)>>)>>]
Payload_icons3 ==
    [chart |-> FALSE, table |-> NoTable,
     bullet_points |-> <<Icon(20), Icon(20), Icon(20)>>]

----------------------------------------------------------------------------
(* Selection: select_layout_with_story_awareness and                        *)
(* select_layout_for_slide.                                                 *)

compatible_groups ==
    {{"data_visualization", "metrics_dashboard"},
     {"balanced_comparison", "hierarchical_story"},
     {"three_stage_narrative", "feature_grid"},
     {"focused_message", "main_supporting"}}

is_compatible_story_type(layout_story, preferred_story) ==
    \E group \in compatible_groups :
        layout_story \in group /\ preferred_story \in group

\* The diversity bonus of lines 76-79.
diversity_bonus(idx, used) ==
    IF Len(used) >= 2 /\ used[Len(used)] # idx /\ used[Len(used) - 1] # idx
    THEN 10 ELSE 0

\* The repetition penalty of lines 81-85.
repetition_penalty(idx, used) ==
    IF Count(LastN(used, 5), idx) >= 2 THEN 20 ELSE 0

\* The story points of lines 66-71.
story_points(layout_story, preferred_story) ==
    IF layout_story = preferred_story THEN 30
    ELSE IF is_compatible_story_type(layout_story, preferred_story) THEN 15
    ELSE 0

\* (layout.executive_suitability / 100) * 20 of line 73.
suitability_points(executive_suitability) ==
    float_mul(float_div(executive_suitability, float_hundred),
              float_of_int(20))

\* Lines 63-85 as arithmetic: score = 0.0, then the content score, the
\* story points, the suitability points and the bonus are added and the
\* penalty is taken off, every += and -= rounded.  Adding 0 stands for a
\* term the code does not add.
story_aware_sum(content, story, suitability, bonus, penalty) ==
    float_sum([i \in 1..5 |->
                  IF i = 3 THEN suitability
                  ELSE float_of_int(<<content, story, 0, bonus,
                                      -penalty>>[i])])

\* The templates and the payloads of a generation run.
RunTemplates ==
    {Template_standard, Template_wide, Template_two_viz,
     Template_with_fallback, Template_empty, Template_grid_hierarchy}
RunPayloads ==
    {Payload_bullets3, Payload_bullets12, Payload_chart, Payload_table,
     Payload_compare2, Payload_kpi4, Payload_icons3}

RunLayouts ==
    UNION {{template[idx] : idx \in DOMAIN template} :
              template \in RunTemplates}

\* The content scores that the layouts of those templates get for those
\* payloads, each with the executive_suitability of the layout.
RunContentScores ==
    {<<score_layout_for_content(
           pair[1], infer_content_type_from_json(pair[2]), pair[2]),
       pair[1].executive_suitability>> :
        pair \in {scored \in RunLayouts \X RunPayloads :
                      ~ScorerRaises(scored[1],
                                    infer_content_type_from_json(scored[2]),
                                    scored[2])}}

\* The sums of a generation run, computed once: for every content score
\* with its executive_suitability, and for whatever the story points, the
\* bonus and the penalty are.
StoryAwareSums ==
    Table([points \in RunContentScores \X {0, 15, 30} \X {0, 10} \X {0, 20} |->
              story_aware_sum(points[1][1], points[2],
                              suitability_points(points[1][2]),
                              points[3], points[4])])

\* The sum for the points <<<<content score, executive_suitability>>,
\* story points, bonus, penalty>>, read from the table when it has them.
story_aware_total(points) ==
    Lookup(StoryAwareSums, points,
           story_aware_sum(points[1][1], points[2],
                           suitability_points(points[1][2]),
                           points[3], points[4]))

\* The score select_layout_with_story_awareness gives layout idx (lines
\* 63-85), a double.
story_aware_score(ls, idx, content_type, slide_json, preferred_story, used) ==
    story_aware_total(
        <<<<score_layout_for_content(ls[idx], content_type, slide_json),
            ls[idx].executive_suitability>>,
          story_points(ls[idx].semantic_story_type, preferred_story),
          diversity_bonus(idx, used),
          repetition_penalty(idx, used)>>)

\* scored_layouts.sort(reverse=True)[0] (lines 89-91): the sort is stable,
\* so among the pairs of the highest score the one of the lowest index
\* comes first.
first_of_highest(scored_layouts) ==
    CHOOSE first \in scored_layouts :
        \A other \in scored_layouts :
            \/ float_less(other[1], first[1])
            \/ /\ ~float_less(first[1], other[1])
               /\ first[2] <= other[2]

\* The index of the best of scored_layouts, the pairs (score, idx) of
\* line 87.
best_scored(ls, content_type, slide_json, preferred_story, used) ==
    first_of_highest(
        {<<story_aware_score(ls, idx, content_type, slide_json,
                             preferred_story, used), idx>> :
            idx \in DOMAIN ls})[2]

\* Mutant: the arc is rebuilt whenever its length is not total_slides.
story_awareness_rebuild(ls, seq0, used, slide_json, slide_index, total_slides) ==
    LET seq1 == IF Len(seq0) # total_slides
                THEN build_section_sequence(total_slides)
                ELSE seq0
        preferred_story == seq1[Min(slide_index, Len(seq1) - 1) + 1]
        content_type == infer_content_type_from_json(slide_json)
        raised == \E i \in DOMAIN ls :
                      ScorerRaises(ls[i], content_type, slide_json)
    IN  [section_sequence |-> seq1,
         preferred_story |-> preferred_story,
         raised |-> raised,
         recorded |-> ~raised /\ DOMAIN ls # {},
         best_idx |-> IF raised \/ DOMAIN ls = {} THEN 1
                      ELSE best_scored(ls, content_type, slide_json,
                                       preferred_story, used)]

\* The outcome of select_layout_with_story_awareness on a matcher whose
\* fields are seq0 (section_sequence) and used (used_layouts).
story_awareness(ls, seq0, used, slide_json, slide_index, total_slides) ==
    LET seq1 == IF seq0 = <<>> THEN build_section_sequence(total_slides)
                ELSE seq0
        preferred_story == seq1[Min(slide_index, Len(seq1) - 1) + 1]
        content_type == infer_content_type_from_json(slide_json)
        raised == \E i \in DOMAIN ls :
                      ScorerRaises(ls[i], content_type, slide_json)
    IN  [section_sequence |-> seq1,
         preferred_story |-> preferred_story,
         raised |-> raised,
         recorded |-> ~raised /\ DOMAIN ls # {},
         best_idx |-> IF raised \/ DOMAIN ls = {} THEN 1
                      ELSE best_scored(ls, content_type, slide_json,
                                       preferred_story, used)]

\* Mutant: an index that is no analyzed layout is recorded with the story
\* type of the fallback layout instead of None.
story_of_default(ls, idx) ==
    IF idx \in DOMAIN ls THEN ls[idx].semantic_story_type
    ELSE "general_content"

story_of(ls, idx) ==
    IF idx \in DOMAIN ls THEN ls[idx].semantic_story_type ELSE NoneStory

\* Lines 183-184: the last two recorded story types both equal the
\* candidate's.
avoid_third(stories, candidate_story) ==
    /\ Len(stories) >= 2
    /\ stories[Len(stories)] = stories[Len(stories) - 1]
    /\ stories[Len(stories) - 1] = candidate_story

\* Mutant: any layout of another story type is admissible, whatever its
\* score.
is_alternative_without_margin(ls, idx, layout_idx, content_type, slide_json) ==
    /\ idx # layout_idx
    /\ ls[idx].semantic_story_type # ls[layout_idx].semantic_story_type

\* Lines 196-203: layout idx is an admissible alternative to layout_idx.
is_alternative(ls, idx, layout_idx, content_type, slide_json) ==
    /\ idx # layout_idx
    /\ ls[idx].semantic_story_type # ls[layout_idx].semantic_story_type
    /\ score_layout_for_content(ls[idx], content_type, slide_json)
         >= score_layout_for_content(ls[layout_idx], content_type, slide_json)
            - 12

\* Lines 204-209: the content score of an alternative, 5 lower when its
\* story type is among the last three recorded.
adj_score(ls, idx, content_type, slide_json, stories) ==
    score_layout_for_content(ls[idx], content_type, slide_json)
    - (IF \E k \in 1..Len(LastN(stories, 3)) :
              LastN(stories, 3)[k] = ls[idx].semantic_story_type
       THEN 5 ELSE 0)

\* Lines 192-215: the set of admissible alternatives and the one chosen,
\* the first of the highest adjusted score.
alternatives(ls, layout_idx, content_type, slide_json) ==
    {idx \in DOMAIN ls :
        is_alternative(ls, idx, layout_idx, content_type, slide_json)}

\* Mutant: the alternative found is not adopted (line 215 left out).
best_alt_not_adopted(ls, layout_idx, content_type, slide_json, stories) ==
    layout_idx

best_alt(ls, layout_idx, content_type, slide_json, stories) ==
    LET adj(i) == adj_score(ls, i, content_type, slide_json, stories)
        alts == alternatives(ls, layout_idx, content_type, slide_json)
    IN  CHOOSE i \in alts :
            \A j \in alts : adj(i) > adj(j) \/ (adj(i) = adj(j) /\ i <= j)

HistoryLimit == 50

\* Mutant: the slice keeps the first HistoryLimit entries, list[:50].
append_bounded_front(s, x) ==
    SubSeq(Append(s, x), 1, Min(HistoryLimit, Len(s) + 1))

\* Lines 219-221 and 223-229: append and keep the last HistoryLimit entries.
append_bounded(s, x) == LastN(Append(s, x), HistoryLimit)

\* Lines 160-231 of select_layout_for_slide, on a matcher with the fields
\* used (used_layouts) and stories (used_story_types) before the call and
\* the outcome a of select_layout_with_story_awareness: the fields
\* afterwards and what the call did.  candidate is the index
\* select_layout_with_story_awareness returned, result the index returned to
\* the caller; both are -1 when the call raised before having them.
select_after_awareness(ls, used, stories, slide_json, a) ==
    LET layout_idx == a.best_idx
        \* lines 102-103
        used1 == IF a.recorded THEN Append(used, layout_idx) ELSE used
        stories1 == IF a.recorded
                    THEN Append(stories, story_of(ls, layout_idx))
                    ELSE stories
        rec1 == IF a.recorded THEN <<layout_idx>> ELSE <<>>
        content_type == infer_content_type_from_json(slide_json)
        candidate_story == story_of(ls, layout_idx)
        searching == used1 # <<>> /\ avoid_third(stories1, candidate_story)
        \* line 190 indexes analyzer.layouts with the candidate
        key_error == searching /\ layout_idx \notin DOMAIN ls
        alts == IF searching /\ ~key_error
                THEN alternatives(ls, layout_idx, content_type, slide_json)
                ELSE {}
        final == IF alts # {}
                 THEN best_alt(ls, layout_idx, content_type, slide_json,
                               stories1)
                 ELSE layout_idx
    IN  IF a.raised
        THEN [section_sequence |-> a.section_sequence,
              used_layouts |-> used, used_story_types |-> stories,
              preferred_story |-> a.preferred_story,
              outcome |-> "raised", candidate |-> -1, result |-> -1,
              searched |-> FALSE, switched |-> FALSE, recorded |-> <<>>]
        ELSE IF key_error
        THEN [section_sequence |-> a.section_sequence,
              used_layouts |-> used1, used_story_types |-> stories1,
              preferred_story |-> a.preferred_story,
              outcome |-> "raised", candidate |-> layout_idx, result |-> -1,
              searched |-> TRUE, switched |-> FALSE, recorded |-> rec1]
        ELSE IF used1 = <<>>
        THEN \* lines 168-174
             [section_sequence |-> a.section_sequence,
              used_layouts |-> Append(used1, layout_idx),
              used_story_types |-> Append(stories1, candidate_story),
              preferred_story |-> a.preferred_story,
              outcome |-> "returned", candidate |-> layout_idx,
              result |-> layout_idx,
              searched |-> FALSE, switched |-> FALSE,
              recorded |-> Append(rec1, layout_idx)]
        ELSE \* lines 217-231
             [section_sequence |-> a.section_sequence,
              used_layouts |-> append_bounded(used1, final),
              used_story_types |->
                  append_bounded(stories1, story_of(ls, final)),
              preferred_story |-> a.preferred_story,
              outcome |-> "returned", candidate |-> layout_idx,
              result |-> final,
              searched |-> searching, switched |-> alts # {},
              recorded |-> Append(rec1, final)]

\* select_layout_for_slide on a matcher with the fields seq0
\* (section_sequence), used and stories: line 158 calls
\* select_layout_with_story_awareness, lines 160-231 work on what it
\* returned.
select_layout_for_slide(ls, seq0, used, stories, slide_json, slide_index, total_slides) ==
    select_after_awareness(ls, used, stories, slide_json,
                           story_awareness(ls, seq0, used, slide_json,
                                           slide_index, total_slides))

\* The fields after select_layout_with_story_awareness, whose outcome is
\* a, and what the call did (lines 93-108).
record_awareness(ls, used, stories, a) ==
    [section_sequence |-> a.section_sequence,
     used_layouts |-> IF a.recorded THEN Append(used, a.best_idx) ELSE used,
     used_story_types |->
         IF a.recorded THEN Append(stories, story_of(ls, a.best_idx))
         ELSE stories,
     preferred_story |-> a.preferred_story,
     outcome |-> IF a.raised THEN "raised" ELSE "returned",
     candidate |-> IF a.raised THEN -1 ELSE a.best_idx,
     result |-> IF a.raised THEN -1 ELSE a.best_idx,
     searched |-> FALSE, switched |-> FALSE,
     recorded |-> IF a.recorded THEN <<a.best_idx>> ELSE <<>>]

\* select_layout_with_story_awareness called on its own.
select_layout_with_story_awareness(ls, seq0, used, stories, slide_json, slide_index, total_slides) ==
    record_awareness(ls, used, stories,
                     story_awareness(ls, seq0, used, slide_json, slide_index,
                                     total_slides))

\* select_layout_with_scoring (lines 310-331): the layout of the highest
\* content score, the first of them in dict order, or 1 when the template
\* has no layout.  It reads the matcher and writes none of its fields.
select_layout_with_scoring(ls, seq0, used, stories, slide_json) ==
    LET content_type == infer_content_type_from_json(slide_json)
        raised == \E i \in DOMAIN ls :
                      ScorerRaises(ls[i], content_type, slide_json)
        sc(i) == score_layout_for_content(ls[i], content_type, slide_json)
        best_idx == IF raised \/ DOMAIN ls = {} THEN 1
                    ELSE CHOOSE i \in DOMAIN ls :
                             \A j \in DOMAIN ls :
                                 sc(i) > sc(j) \/ (sc(i) = sc(j) /\ i <= j)
    IN  [section_sequence |-> seq0,
         used_layouts |-> used,
         used_story_types |-> stories,
         preferred_story |-> NoneStory,
         outcome |-> IF raised THEN "raised" ELSE "returned",
         candidate |-> IF raised THEN -1 ELSE best_idx,
         result |-> IF raised THEN -1 ELSE best_idx,
         searched |-> FALSE, switched |-> FALSE,
         recorded |-> <<>>]

----------------------------------------------------------------------------
(* The matcher as a state machine. *)

\* Mutant: the call notes the content it served on the layout it returned.
Apply_noting_use(op, r, slide_json, slide_index, total_slides) ==
    /\ section_sequence' = r.section_sequence
    /\ used_layouts' = r.used_layouts
    /\ used_story_types' = r.used_story_types
    /\ all_layouts' = all_layouts \o r.recorded
    /\ all_story_types' =
           all_story_types
           \o [i \in 1..Len(r.recorded) |-> story_of(layouts, r.recorded[i])]
    /\ calls' = Append(calls,
                       [op |-> op, slide_json |-> slide_json,
                        slide_index |-> slide_index,
                        total_slides |-> total_slides,
                        preferred_story |-> r.preferred_story,
                        outcome |-> r.outcome, candidate |-> r.candidate,
                        result |-> r.result, searched |-> r.searched,
                        switched |-> r.switched])
    /\ layouts' = IF r.result \in DOMAIN layouts
                  THEN [layouts EXCEPT ![r.result].best_for =
                            @ \cup {infer_content_type_from_json(slide_json)}]
                  ELSE layouts
    /\ UNCHANGED <<slides, arc_vars, analysis_vars, cache_vars,
                   request_vars, repeat_vars>>

\* The effect of one call, r being the outcome record of the operation.
Apply(op, r, slide_json, slide_index, total_slides) ==
    /\ section_sequence' = r.section_sequence
    /\ used_layouts' = r.used_layouts
    /\ used_story_types' = r.used_story_types
    /\ all_layouts' = all_layouts \o r.recorded
    /\ all_story_types' =
           all_story_types
           \o [i \in 1..Len(r.recorded) |-> story_of(layouts, r.recorded[i])]
    /\ calls' = Append(calls,
                       [op |-> op, slide_json |-> slide_json,
                        slide_index |-> slide_index,
                        total_slides |-> total_slides,
                        preferred_story |-> r.preferred_story,
                        outcome |-> r.outcome, candidate |-> r.candidate,
                        result |-> r.result, searched |-> r.searched,
                        switched |-> r.switched])
    /\ UNCHANGED <<layouts, slides, arc_vars, analysis_vars, cache_vars,
                   request_vars, repeat_vars>>

SelectLayoutForSlide(slide_json, slide_index, total_slides) ==
    Apply("select_layout_for_slide",
          select_layout_for_slide(layouts, section_sequence, used_layouts,
                                  used_story_types, slide_json, slide_index,
                                  total_slides),
          slide_json, slide_index, total_slides)

SelectLayoutWithStoryAwareness(slide_json, slide_index, total_slides) ==
    Apply("select_layout_with_story_awareness",
          select_layout_with_story_awareness(layouts, section_sequence,
                                             used_layouts, used_story_types,
                                             slide_json, slide_index,
                                             total_slides),
          slide_json, slide_index, total_slides)

SelectLayoutWithScoring(slide_json) ==
    Apply("select_layout_with_scoring",
          select_layout_with_scoring(layouts, section_sequence, used_layouts,
                                     used_story_types, slide_json),
          slide_json, -1, -1)

\* No analysis, no request thread and no stand-alone matcher call.
NoRequest == [layout_idx |-> -1]
NotCalled == [outcome |-> "not called", score |-> -1, mapping |-> <<>>]
TemplateKeys == {"Basic", "Minimalist"}

InitArcIdle ==
    /\ total_sections = 0
    /\ sequence = <<>>
    /\ arc_pc = "idle"

InitAnalysisIdle ==
    /\ presentation = <<>>
    /\ next_layout = 0
    /\ failed_layouts = {}

InitCacheIdle ==
    /\ template_analyzers = [k \in TemplateKeys |-> 0]
    /\ threads = <<>>
    /\ builds = [k \in TemplateKeys |-> 0]

NotAnalyzed == [done |-> FALSE, process |-> "", capability |-> <<>>, best_for |-> <<>>, kpi_grid |-> NoGrid]

InitRepeatIdle ==
    /\ analyses = [first |-> NotAnalyzed, second |-> NotAnalyzed]
    /\ hash_orders = <<>>

InitRequestIdle ==
    /\ request = NoRequest
    /\ score_result = NotCalled
    /\ mapping_result = NotCalled

InitFresh ==
    /\ InitAnalysisIdle
    /\ InitCacheIdle
    /\ InitRequestIdle
    /\ InitRepeatIdle
    /\ used_layouts = <<>>
    /\ used_story_types = <<>>
    /\ section_sequence = <<>>
    /\ calls = <<>>
    /\ all_layouts = <<>>
    /\ all_story_types = <<>>
    /\ total_sections = 0
    /\ sequence = <<>>
    /\ arc_pc = "idle"

(* A caller that uses a fresh matcher directly, with any arguments. *)

Templates ==
    {Template_standard, Template_with_fallback, Template_empty,
     Template_grid_hierarchy}
Payloads == {Payload_chart, Payload_bullets3}
SlideIndexes == {1, 12}
TotalSlides == {3, 10}

Init ==
    /\ InitFresh
    /\ layouts \in Templates
    /\ slides = <<>>

CallSelectLayoutForSlide ==
    /\ Len(calls) < MaxCalls
    /\ \E slide_json \in Payloads, slide_index \in SlideIndexes,
          total_slides \in TotalSlides :
          SelectLayoutForSlide(slide_json, slide_index, total_slides)

CallSelectLayoutWithStoryAwareness ==
    /\ Len(calls) < MaxCalls
    /\ \E slide_json \in Payloads, slide_index \in SlideIndexes,
          total_slides \in TotalSlides :
          SelectLayoutWithStoryAwareness(slide_json, slide_index,
                                         total_slides)

Next == CallSelectLayoutForSlide \/ CallSelectLayoutWithStoryAwareness

Spec == Init /\ [][Next]_vars

(* A generation run: the main content loop of pptx_helper                  *)
(* (helpers/pptx_helper.py lines 389-415) calls select_layout_for_slide     *)
(* once per slide, in order, with total_slides = len(parsed_data['slides']) *)
(* and goes on to the next slide when a slide raises.                       *)

RunLengths == {3, 10, MaxRun}

\* The decks of n slides that repeat one payload or alternate two.
Decks(n) ==
    {[i \in 1..n |-> IF i % 2 = 1 THEN a ELSE b] :
        a \in RunPayloads, b \in RunPayloads}

InitRun ==
    /\ InitFresh
    /\ layouts \in RunTemplates
    /\ \E n \in RunLengths : slides \in Decks(n)

GenerateSlide ==
    /\ Len(calls) < Len(slides)
    /\ SelectLayoutForSlide(slides[Len(calls) + 1], Len(calls), Len(slides))

NextRun == GenerateSlide

SpecRun == InitRun /\ [][NextRun]_vars

----------------------------------------------------------------------------
(* Stand-alone use of the arc builder: an argument is drawn, then the       *)
(* builder is applied to it.                                                *)

InitMatcherIdle ==
    /\ layouts = Template_empty
    /\ used_layouts = <<>>
    /\ used_story_types = <<>>
    /\ section_sequence = <<>>
    /\ calls = <<>>
    /\ all_layouts = <<>>
    /\ all_story_types = <<>>
    /\ slides = <<>>

InitArc ==
    /\ InitMatcherIdle
    /\ InitAnalysisIdle
    /\ InitCacheIdle
    /\ InitRequestIdle
    /\ InitRepeatIdle
    /\ total_sections \in 0..MaxArcSlides
    /\ sequence = <<>>
    /\ arc_pc = "ready"

BuildSectionSequence ==
    /\ arc_pc = "ready"
    /\ sequence' = build_section_sequence(total_sections)
    /\ arc_pc' = "done"
    /\ UNCHANGED <<total_sections, matcher_vars, analysis_vars, cache_vars,
                   request_vars, repeat_vars>>

NextArc == BuildSectionSequence

SpecArc == InitArc /\ [][NextArc]_vars

----------------------------------------------------------------------------
(* Template analysis: TemplateAnalyzer.__init__ starts with an empty        *)
(* self.layouts and _analyze_all_layouts goes through                       *)
(* presentation.slide_layouts, one layout per step.                         *)

\* The presentations of up to n slide layouts.
Presentations(n) == UNION {[1..k -> GeometryPool] : k \in 0..n}

\* A loop that drops a layout whose analysis raised.
store_analysis_skipping(ls, idx, layout) ==
    IF analyze_single_layout_raises(layout) THEN ls
    ELSE [i \in DOMAIN ls \cup {idx} |->
             IF i = idx THEN entry_of(layout) ELSE ls[i]]

\* Lines 250-265: self.layouts after the loop body for layout idx.
store_analysis(ls, idx, layout) ==
    [i \in DOMAIN ls \cup {idx} |->
        IF i = idx THEN entry_of(layout) ELSE ls[i]]

InitAnalyze ==
    /\ InitMatcherIdle
    /\ InitArcIdle
    /\ InitCacheIdle
    /\ InitRequestIdle
    /\ InitRepeatIdle
    /\ presentation \in Presentations(MaxLayouts)
    /\ next_layout = 0
    /\ failed_layouts = {}

AnalyzeLayout ==
    /\ next_layout < Len(presentation)
    /\ layouts' = store_analysis(layouts, next_layout,
                                 presentation[next_layout + 1])
    /\ failed_layouts' =
           IF analyze_single_layout_raises(presentation[next_layout + 1])
           THEN failed_layouts \cup {next_layout} ELSE failed_layouts
    /\ next_layout' = next_layout + 1
    /\ UNCHANGED <<presentation, used_layouts, used_story_types,
                   section_sequence, calls, all_layouts, all_story_types,
                   slides, arc_vars, cache_vars, request_vars,
                   repeat_vars>>

NextAnalyze == AnalyzeLayout

SpecAnalyze == InitAnalyze /\ [][NextAnalyze]_vars

----------------------------------------------------------------------------
(* The analyzer cache of the web application (flask_app.py).  The server    *)
(* runs with threaded=True, so each request is served by its own thread;    *)
(* a thread that serves a request with a template key calls                 *)
(* get_or_create_analyzer, which holds no lock.  An analyzer instance is    *)
(* named by the thread that constructed it; 0 is no instance.               *)

Threads == 1..MaxThreads

IdleThread == [pc |-> "idle", template_key |-> "", analyzer |-> 0, result |-> 0]

InitCache ==
    /\ InitMatcherIdle
    /\ InitArcIdle
    /\ InitAnalysisIdle
    /\ InitRequestIdle
    /\ InitRepeatIdle
    /\ template_analyzers = [k \in TemplateKeys |-> 0]
    /\ builds = [k \in TemplateKeys |-> 0]
    /\ threads = [t \in Threads |-> IdleThread]

CacheUnchanged == UNCHANGED <<matcher_vars, arc_vars, analysis_vars, request_vars, repeat_vars>>

\* Line 249: a request thread calls get_or_create_analyzer(template_key).
CallGetOrCreateAnalyzer(t, template_key) ==
    /\ threads[t].pc = "idle"
    /\ threads' = [threads EXCEPT ![t].pc = "check",
                                  ![t].template_key = template_key]
    /\ UNCHANGED <<template_analyzers, builds>>
    /\ CacheUnchanged

\* Line 72: if template_key not in template_analyzers.
CheckCached(t) ==
    /\ threads[t].pc = "check"
    /\ threads' = [threads EXCEPT ![t].pc =
                       IF template_analyzers[threads[t].template_key] = 0
                       THEN "build" ELSE "return"]
    /\ UNCHANGED <<template_analyzers, builds>>
    /\ CacheUnchanged

\* Lines 74-76: the template file is read and a TemplateAnalyzer built.
BuildAnalyzer(t) ==
    /\ threads[t].pc = "build"
    /\ threads' = [threads EXCEPT ![t].pc = "store", ![t].analyzer = t]
    /\ builds' = [builds EXCEPT ![threads[t].template_key] = @ + 1]
    /\ UNCHANGED template_analyzers
    /\ CacheUnchanged

\* Line 77: template_analyzers[template_key] = analyzer.
StoreAnalyzer(t) ==
    /\ threads[t].pc = "store"
    /\ template_analyzers' =
           [template_analyzers EXCEPT ![threads[t].template_key] =
                                          threads[t].analyzer]
    /\ threads' = [threads EXCEPT ![t].pc = "return"]
    /\ UNCHANGED builds
    /\ CacheUnchanged

\* Line 80: return template_analyzers[template_key].
ReturnAnalyzer(t) ==
    /\ threads[t].pc = "return"
    /\ threads' = [threads EXCEPT ![t].pc = "done",
                                  ![t].result =
                                      template_analyzers[threads[t].template_key]]
    /\ UNCHANGED <<template_analyzers, builds>>
    /\ CacheUnchanged

NextCache ==
    \E t \in Threads :
        \/ \E template_key \in TemplateKeys :
               CallGetOrCreateAnalyzer(t, template_key)
        \/ CheckCached(t)
        \/ BuildAnalyzer(t)
        \/ StoreAnalyzer(t)
        \/ ReturnAnalyzer(t)

SpecCache == InitCache /\ [][NextCache]_vars

----------------------------------------------------------------------------
(* Stand-alone use of the matcher on one layout: a layout of an analyzed    *)
(* template, a slide and a content type are handed to                       *)
(* _score_layout_for_content and to map_content_to_placeholders.            *)

\* TemplateAnalyzer.layouts for a presentation.
analyze_all_layouts(slide_layouts) ==
    [i \in 0..(Len(slide_layouts) - 1) |-> entry_of(slide_layouts[i + 1])]

\* A presentation of every slide layout of GeometryPool.
PoolPresentation ==
    <<Geometry_general, Geometry_dataviz, Geometry_dataviz2, Geometry_compare,
      Geometry_three, Geometry_kpi, Geometry_focused, Geometry_zeroarea,
      Geometry_bad, Geometry_single50, Geometry_titled50, Geometry_detailed,
      Geometry_bigviz, Geometry_picto, Geometry_near_pair,
      Geometry_five_apart, Geometry_mainsup, Geometry_feature_grid,
      Geometry_hierarchy, Geometry_kpi5, Geometry_kpi5_short_first,
      Geometry_kpi_one_row, Geometry_kpi_lonely, Geometry_kpi_uneven,
      Geometry_kpi_three, Geometry_kpi_titled, Geometry_title_only,
      Geometry_title_slide, Geometry_body_heading,
      Geometry_three_square_inches, Geometry_zero_single,
      Geometry_kpi_zero, Geometry_kpi_thirty_percent,
      Geometry_kpi_thirty_percent_three, Geometry_shared_idx,
      Geometry_three_to_two, Geometry_thin_body, Geometry_inherited_chart,
      Geometry_rounded_distances, Geometry_half_inch_apart, Geometry_media,
      Geometry_stacked_subtitles, Geometry_lower_subtitle_first,
      Geometry_section_edges, Geometry_subtitle_idx_shared,
      Geometry_next_subtitle_idx_shared>>

Template_pool == analyze_all_layouts(PoolPresentation)

ContentTypes ==
    {"chart", "table", "kpi_dashboard", "pictogram", "comparison", "bullets",
     "text"}

Raised == [outcome |-> "raised", score |-> -1, mapping |-> <<>>]
ReturnedScore(score) ==
    [outcome |-> "returned", score |-> score, mapping |-> <<>>]
ReturnedMapping(mapping) ==
    [outcome |-> "returned", score |-> -1, mapping |-> mapping]

\* _score_layout_for_content, which raises when the scorer of the content
\* type does.
score_layout_for_content_outcome(layout, content_type, slide_json) ==
    IF ScorerRaises(layout, content_type, slide_json) THEN Raised
    ELSE ReturnedScore(score_layout_for_content(layout, content_type,
                                                slide_json))

\* Lines 268-283 call .get on each of the first len(sections) entries of
\* bullet_points; only the first is known to be a dict, and a string raises
\* AttributeError.
map_sections_raises(bullets, sections) ==
    \E i \in 1..Min(Len(bullets), Len(sections)) : bullets[i].kind # "dict"

\* The dict that the item assignments mapping[idx] = value leave, made in
\* the order of writes: a key assigned more than once keeps the value
\* assigned last.
dict_of(writes) ==
    [k \in {writes[j].idx : j \in DOMAIN writes} |->
        writes[CHOOSE j \in DOMAIN writes :
                  /\ writes[j].idx = k
                  /\ \A m \in DOMAIN writes : writes[m].idx = k => m <= j]
            .value]

\* A value of the mapping: its 'type' and, as entry, the position in
\* bullet_points of the dict whose heading ('text') or bullet_points
\* ('items') it carries; entry 0 is the chart, the table or the whole
\* bullet list of the slide.
content_spec(type, entry) == [type |-> type, entry |-> entry]

\* Lines 267-283: for each of the first len(sections) dicts of
\* bullet_points, in turn, mapping[section['subtitle'].idx] is assigned the
\* heading and then mapping[section['content_areas'][0].idx] the bullets.
map_sections(bullets, sections) ==
    dict_of([j \in 1..(2 * Min(Len(bullets), Len(sections))) |->
               IF j % 2 = 1
               THEN [idx |-> sections[(j + 1) \div 2].subtitle,
                     value |-> content_spec("subtitle", (j + 1) \div 2)]
               ELSE [idx |-> sections[j \div 2].content_areas[1].idx,
                     value |-> content_spec("bullets", j \div 2)]])

\* map_content_to_placeholders: the returned dict, placeholder idx ->
\* content spec.  max() of no content placeholder raises ValueError (lines
\* 254, 259); ContentLayoutMatcher has no method _is_icon_slide, so line 287
\* raises AttributeError.
map_content_to_placeholders(slide_json, layout_capability) ==
    LET bullets == slide_json.bullet_points
        sections == layout_capability.semantic_sections
        content_phs == layout_capability.content_placeholders
        OnLargest(type) ==
            IF content_phs = <<>> THEN Raised
            ELSE ReturnedMapping(
                     dict_of(<<[idx |-> FirstLargest(content_phs).idx,
                                value |-> content_spec(type, 0)]>>))
    IN  IF slide_json.chart THEN OnLargest("chart")
        ELSE IF slide_json.table.present THEN OnLargest("table")
        ELSE IF Len(sections) >= 2
             THEN IF bullets # <<>> /\ bullets[1].kind = "dict"
                  THEN IF map_sections_raises(bullets, sections) THEN Raised
                       ELSE ReturnedMapping(map_sections(bullets, sections))
                  ELSE ReturnedMapping(dict_of(<<>>))
        ELSE Raised

RequestTemplates == {Template_pool}
RequestPayloads ==
    {Payload_bullets3, Payload_bullets12, Payload_chart, Payload_table,
     Payload_compare1, Payload_compare2, Payload_compare3, Payload_kpi4,
     Payload_icons3, Payload_table_none, Payload_table_list,
     Payload_dict_then_string}

InitRequest ==
    /\ InitArcIdle
    /\ InitRepeatIdle
    /\ InitAnalysisIdle
    /\ InitCacheIdle
    /\ used_layouts = <<>>
    /\ used_story_types = <<>>
    /\ section_sequence = <<>>
    /\ calls = <<>>
    /\ all_layouts = <<>>
    /\ all_story_types = <<>>
    /\ slides = <<>>
    /\ score_result = NotCalled
    /\ mapping_result = NotCalled
    /\ layouts \in RequestTemplates
    /\ \E layout_idx \in DOMAIN layouts, content_type \in ContentTypes,
          slide_json \in RequestPayloads :
          request = [layout_idx |-> layout_idx, content_type |-> content_type,
                     slide_json |-> slide_json]

ScoreLayoutForContent ==
    /\ score_result = NotCalled
    /\ score_result' =
           score_layout_for_content_outcome(layouts[request.layout_idx],
                                            request.content_type,
                                            request.slide_json)
    /\ UNCHANGED <<request, mapping_result, matcher_vars, arc_vars,
                   analysis_vars, cache_vars, repeat_vars>>

MapContentToPlaceholders ==
    /\ mapping_result = NotCalled
    /\ mapping_result' =
           map_content_to_placeholders(request.slide_json,
                                       layouts[request.layout_idx])
    /\ UNCHANGED <<request, score_result, matcher_vars, arc_vars,
                   analysis_vars, cache_vars, repeat_vars>>

NextRequest == ScoreLayoutForContent \/ MapContentToPlaceholders

SpecRequest == InitRequest /\ [][NextRequest]_vars

(* A session on one analyzed template: a fresh matcher is asked for layouts *)
(* by any of its three selection methods, slide after slide, while one      *)
(* layout is scored and mapped for one payload.                             *)

\* A template whose two layouts have two sections each, the second with a
\* subtitle that has the idx of its content area.
Template_idx_shared ==
    analyze_all_layouts(<<Geometry_compare, Geometry_subtitle_idx_shared>>)

SessionTemplates ==
    {Template_standard, Template_with_fallback, Template_idx_shared}
SessionPayloads == {Payload_chart, Payload_bullets3, Payload_compare2}
SessionTotalSlides == {3}

InitSession ==
    /\ InitArcIdle
    /\ InitRepeatIdle
    /\ InitAnalysisIdle
    /\ InitCacheIdle
    /\ used_layouts = <<>>
    /\ used_story_types = <<>>
    /\ section_sequence = <<>>
    /\ calls = <<>>
    /\ all_layouts = <<>>
    /\ all_story_types = <<>>
    /\ slides = <<>>
    /\ score_result = NotCalled
    /\ mapping_result = NotCalled
    /\ layouts \in SessionTemplates
    /\ \E layout_idx \in DOMAIN layouts, slide_json \in SessionPayloads :
          request = [layout_idx |-> layout_idx,
                     content_type |-> infer_content_type_from_json(slide_json),
                     slide_json |-> slide_json]

SessionSelectLayoutForSlide ==
    /\ Len(calls) < MaxSession
    /\ \E slide_json \in SessionPayloads, total_slides \in SessionTotalSlides :
          SelectLayoutForSlide(slide_json, Len(calls), total_slides)

SessionSelectLayoutWithStoryAwareness ==
    /\ Len(calls) < MaxSession
    /\ \E slide_json \in SessionPayloads, total_slides \in SessionTotalSlides :
          SelectLayoutWithStoryAwareness(slide_json, Len(calls), total_slides)

SessionSelectLayoutWithScoring ==
    /\ Len(calls) < MaxSession
    /\ \E slide_json \in SessionPayloads : SelectLayoutWithScoring(slide_json)

NextSession ==
    \/ SessionSelectLayoutForSlide
    \/ SessionSelectLayoutWithStoryAwareness
    \/ SessionSelectLayoutWithScoring
    \/ ScoreLayoutForContent
    \/ MapContentToPlaceholders

SpecSession == InitSession /\ [][NextSession]_vars

----------------------------------------------------------------------------
(* One slide layout analyzed twice.  _determine_best_use ends with          *)
(* list(set(best_for)) (line 1203): the order of that list is the           *)
(* iteration order of a set of strings, which depends on the string hashes  *)
(* of the interpreter run (hash randomization is on unless PYTHONHASHSEED   *)
(* fixes it).  Within one run equal sets built the same way are listed in   *)
(* the same order; hash_orders holds the order of each run.  The second     *)
(* analysis runs in the interpreter of the first ("a") or in another run    *)
(* of the program ("b").                                                    *)

Processes == {"a", "b"}

\* The lists without repetition of the elements of S.
Orders(S) ==
    {order \in [1..Cardinality(S) -> S] :
        \A i \in 1..Cardinality(S), j \in 1..Cardinality(S) :
            i # j => order[i] # order[j]}

RepeatPool ==
    {Geometry_general, Geometry_dataviz, Geometry_picto, Geometry_hierarchy,
     Geometry_kpi, Geometry_near_pair, Geometry_zeroarea, Geometry_bad}

\* What one analysis of the layout yields in interpreter run p: the
\* LayoutCapability, the list best_for of it, and the grid _detect_kpi_grid
\* finds on its content placeholders.
analysis_in(p, layout) ==
    [done |-> TRUE,
     process |-> p,
     capability |-> entry_of(layout),
     best_for |-> hash_orders[p],
     kpi_grid |-> IF layout.bad THEN NoGrid ELSE grid_of(layout)]

InitRepeat ==
    /\ InitMatcherIdle
    /\ InitArcIdle
    /\ InitCacheIdle
    /\ InitRequestIdle
    /\ presentation \in [1..1 -> RepeatPool]
    /\ next_layout = 0
    /\ failed_layouts = {}
    /\ analyses = [first |-> NotAnalyzed, second |-> NotAnalyzed]
    /\ \E best_for \in {entry_of(presentation[1]).best_for} :
          hash_orders \in [Processes -> Orders(best_for)]

RepeatUnchanged == UNCHANGED <<matcher_vars, arc_vars, analysis_vars, cache_vars, request_vars, hash_orders>>

AnalyzeFirst ==
    /\ ~analyses.first.done
    /\ analyses' = [analyses EXCEPT !.first = analysis_in("a", presentation[1])]
    /\ RepeatUnchanged

AnalyzeAgainInSameRun ==
    /\ analyses.first.done
    /\ ~analyses.second.done
    /\ analyses' = [analyses EXCEPT !.second = analysis_in("a", presentation[1])]
    /\ RepeatUnchanged

AnalyzeAgainInAnotherRun ==
    /\ analyses.first.done
    /\ ~analyses.second.done
    /\ analyses' = [analyses EXCEPT !.second = analysis_in("b", presentation[1])]
    /\ RepeatUnchanged

NextRepeat == AnalyzeFirst \/ AnalyzeAgainInSameRun \/ AnalyzeAgainInAnotherRun

SpecRepeat == InitRepeat /\ [][NextRepeat]_vars

----------------------------------------------------------------------------
(* Claims about layout selection. *)

IsSlideCall(i) == calls[i].op = "select_layout_for_slide"
Returned(i) == calls[i].outcome = "returned"
ReturnedStory(i) == story_of(layouts, calls[i].result)
StoryTypes == {layouts[i].semantic_story_type : i \in DOMAIN layouts}

\* Every search for an alternative so far found one.
NonDegraded == \A i \in 1..Len(calls) : calls[i].searched => calls[i].switched

\* C1: in a run of N >= 10 slides on layouts of at least 4 distinct story
\* types in which every search for an alternative found one, no three
\* consecutive returned layouts have the same story type.
C1_NoThreeConsecutive ==
    (Len(slides) >= 10 /\ Cardinality(StoryTypes) >= 4 /\ NonDegraded) =>
        \A i \in 1..(Len(calls) - 2) :
            (Returned(i) /\ Returned(i + 1) /\ Returned(i + 2)) =>
                ~(/\ ReturnedStory(i) = ReturnedStory(i + 1)
                  /\ ReturnedStory(i + 1) = ReturnedStory(i + 2))

C1_Witness ==
    /\ Len(slides) >= 10
    /\ Len(calls) = Len(slides)
    /\ Cardinality(StoryTypes) >= 4
    /\ NonDegraded
    /\ \A i \in 1..Len(calls) : Returned(i)
    /\ \E i \in 1..Len(calls) : calls[i].switched

\* Three consecutive select_layout_for_slide calls, from call i on, with
\* identical content, each with layout l as the highest-scoring layout,
\* while another layout of a different story type scores within 12 points
\* of l.
SameTopThreeTimes(i, l) ==
    /\ \A k \in {i, i + 1, i + 2} :
          /\ IsSlideCall(k)
          /\ Returned(k)
          /\ calls[k].slide_json = calls[i].slide_json
          /\ calls[k].candidate = l
    /\ alternatives(layouts, l,
                    infer_content_type_from_json(calls[i].slide_json),
                    calls[i].slide_json) # {}

\* C2 as stated: when the same layout L scores highest in three consecutive
\* calls with identical content and another layout is within 12 points,
\* the third call returns a layout other than L.
C2_AsStated ==
    \A i \in 1..(Len(calls) - 2) : \A l \in DOMAIN layouts :
        SameTopThreeTimes(i, l) => calls[i + 2].result # l

\* C3 as stated: each select_layout_for_slide call appends exactly one
\* entry, the returned index, so that after k <= 50 calls on a fresh
\* matcher used_layouts is the sequence of the k returned indices.
C3_AsStated ==
    (Len(calls) <= 50 /\ \A i \in 1..Len(calls) : Returned(i)) =>
        /\ used_layouts = [i \in 1..Len(calls) |-> calls[i].result]
        /\ used_story_types = [i \in 1..Len(calls) |-> ReturnedStory(i)]

\* C4: after every select_layout_for_slide call of a run used_layouts and
\* used_story_types hold at most 50 entries, the most recent ones of all
\* that were ever appended, in their original order.
C4_HistoryBounded ==
    /\ Len(used_layouts) <= 50
    /\ Len(used_story_types) <= 50
    /\ \A k \in 1..Len(used_layouts) :
          used_layouts[k] =
              all_layouts[Len(all_layouts) - Len(used_layouts) + k]
    /\ \A k \in 1..Len(used_story_types) :
          used_story_types[k] =
              all_story_types[Len(all_story_types)
                              - Len(used_story_types) + k]
    /\ Len(used_layouts) = IF Len(all_layouts) < 50 THEN Len(all_layouts)
                           ELSE 50
    /\ Len(used_story_types) = Len(used_layouts)

C4_Witness ==
    /\ Len(all_layouts) > 50
    /\ Len(used_layouts) = 50
    /\ Returned(Len(calls))
    /\ used_layouts[1] = all_layouts[Len(all_layouts) - 49]

\* C8: once section_sequence is set no later call changes it, whatever
\* slide_index and total_slides are passed, and a call whose slide_index is
\* past the end of the arc prefers the last arc entry.
C8_ArcComputedOnce ==
    [][/\ section_sequence # <<>> => section_sequence' = section_sequence
       /\ calls' # calls =>
            LET c == calls'[Len(calls')]
            IN  c.preferred_story =
                    IF c.slide_index + 1 <= Len(section_sequence')
                    THEN section_sequence'[c.slide_index + 1]
                    ELSE section_sequence'[Len(section_sequence')]]_vars

C8_Witness ==
    /\ Len(calls) >= 2
    /\ calls[1].total_slides = 3
    /\ calls[2].total_slides = 10
    /\ calls[2].slide_index = 12
    /\ calls[2].op = "select_layout_with_story_awareness"
    /\ Len(section_sequence) = 3
    /\ calls[2].preferred_story = section_sequence[3]

\* C9 as stated: on a non-empty layout set (fallback layouts included)
\* select_layout_for_slide never raises and returns a key of
\* analyzer.layouts.
C9_AsStated ==
    DOMAIN layouts # {} =>
        \A i \in 1..Len(calls) :
            IsSlideCall(i) =>
                Returned(i) /\ calls[i].result \in DOMAIN layouts

\* C10 as stated: when analyzer.layouts is empty, layout selection raises
\* to the caller instead of returning a layout index.
C10_AsStated ==
    DOMAIN layouts = {} =>
        \A i \in 1..Len(calls) : IsSlideCall(i) => ~Returned(i)

----------------------------------------------------------------------------
(* Claims about the story arc, checked under SpecArc. *)

ArcDone == arc_pc = "done"

\* C5 as stated: for every total slide count N >= 0 the arc built for N has
\* exactly N entries.
C5_AsStated == ArcDone => Len(sequence) = total_sections

\* C5 amended: for every N >= 1 the arc built for N has exactly N entries;
\* for N = 0 it has the single entry focused_message.
C5_ArcLength ==
    ArcDone =>
        /\ total_sections >= 1 => Len(sequence) = total_sections
        /\ total_sections = 0 => sequence = <<"focused_message">>

C5_Witness ==
    /\ ArcDone
    /\ total_sections = 10
    /\ Len(sequence) = 10

\* The body entries the claim expects at the positions after k opening
\* entries: b entries, entry j (0-based) being element j mod 7 of the list.
OpeningThenBody(k, b) ==
    /\ Len(sequence) >= k + b
    /\ \A i \in 1..k : sequence[i] = "focused_message"
    /\ \A j \in 0..(b - 1) :
          sequence[k + j + 1] =
              <<"data_visualization", "balanced_comparison",
                "three_stage_narrative", "metrics_dashboard",
                "detailed_analysis", "hierarchical_story",
                "feature_grid">>[(j % 7) + 1]

\* C6 as stated: for N >= 1 the arc starts with ceil(N/10) entries of
\* focused_message followed by floor(0.7*N) body entries cycling through the
\* fixed list of seven story types.
C6_AsStated ==
    (ArcDone /\ total_sections >= 1) =>
        OpeningThenBody((total_sections + 9) \div 10,
                        (7 * total_sections) \div 10)

\* C6 amended: for N >= 1 the arc starts with max(1, floor(N/10)) entries of
\* focused_message followed by int(N * 0.7) body entries cycling through the
\* fixed list; int(N * 0.7) is floor(0.7*N) except that it is one less where
\* the double product falls just short of a whole number (N = 90 is the
\* first such N).
C6_OpeningAndBody ==
    (ArcDone /\ total_sections >= 1) =>
        OpeningThenBody(
            IF total_sections < 10 THEN 1 ELSE total_sections \div 10,
            IF total_sections \in {90, 170, 180}
                THEN (7 * total_sections) \div 10 - 1
                ELSE (7 * total_sections) \div 10)

C6_Witness ==
    /\ ArcDone
    /\ total_sections = 25
    /\ sequence[2] = "focused_message"
    /\ sequence[3] = "data_visualization"
    /\ sequence[10] = "data_visualization"
    /\ sequence[19] = "three_stage_narrative"

\* The closing entries are the entries after the opening and body parts.
ClosingStart == opening_count(total_sections) + body_count(total_sections) + 1

LastIsFocusedRestMetrics ==
    /\ sequence[Len(sequence)] = "focused_message"
    /\ \A i \in ClosingStart..(Len(sequence) - 1) :
          sequence[i] = "metrics_dashboard"

\* C7 as stated: for every N >= 1 the last entry of the arc is
\* focused_message and every closing entry before it is metrics_dashboard.
C7_AsStated ==
    (ArcDone /\ total_sections >= 1) => LastIsFocusedRestMetrics

\* C7 amended: for every N >= 1 other than 2 and 3 the last entry of the arc
\* is focused_message and every closing entry before it is
\* metrics_dashboard; for N = 2 and N = 3 the closing part is empty and the
\* arc ends with a body entry.
C7_Closing ==
    /\ (ArcDone /\ total_sections >= 1 /\ total_sections \notin {2, 3})
          => LastIsFocusedRestMetrics
    /\ (ArcDone /\ total_sections \in {2, 3})
          => /\ Len(sequence) = total_sections
             /\ sequence[Len(sequence)] \in
                    {"data_visualization", "balanced_comparison"}

C7_Witness ==
    /\ ArcDone
    /\ total_sections = 11
    /\ sequence[9] = "metrics_dashboard"
    /\ sequence[10] = "metrics_dashboard"
    /\ sequence[11] = "focused_message"

----------------------------------------------------------------------------
(* Claims about template analysis. *)

AnalysisDone == next_layout = Len(presentation)

\* C11: _analyze_all_layouts leaves an entry for every layout index 0..n-1;
\* the entry of a layout whose analysis raised is the fallback (no content
\* placeholder, best_for = [bullets], layout_type "fallback"), and the entry
\* of every other layout is the analysis of that layout alone, whatever
\* happened to the layouts around it.
C11_EntryForEveryLayout ==
    /\ DOMAIN layouts = 0..(next_layout - 1)
    /\ AnalysisDone => DOMAIN layouts = 0..(Len(presentation) - 1)
    /\ \A i \in DOMAIN layouts :
          IF i \in failed_layouts
          THEN /\ layouts[i].layout_type = "fallback"
               /\ layouts[i].content_placeholders = <<>>
               /\ layouts[i].best_for = {"bullets"}
          ELSE /\ ~analyze_single_layout_raises(presentation[i + 1])
               /\ layouts[i] = entry_of(presentation[i + 1])

\* A finished analysis of two layouts, the first of which raised and the
\* second of which has content placeholders.
C11_Witness ==
    /\ AnalysisDone
    /\ next_layout = 2
    /\ failed_layouts = {0}
    /\ layouts[1].layout_type # "fallback"
    /\ layouts[1].content_placeholders # <<>>

Percent(x) == 0 <= x /\ x <= 10000

PercentDouble(x) == ~float_less(x, float_zero) /\ ~float_less(float_hundred, x)

\* C14: for every layout the analyzer produces, fallback layouts and
\* layouts without content placeholders included, complexity_score,
\* visual_balance and executive_suitability each lie in [0, 100]
\* (complexity_score here in hundredths, 0..10000).
C14_ScoresInRange ==
    \A i \in DOMAIN layouts :
        /\ Percent(layouts[i].complexity_score)
        /\ PercentDouble(layouts[i].visual_balance)
        /\ PercentDouble(layouts[i].executive_suitability)

\* A finished analysis with a fallback layout and a layout of three content
\* placeholders one of which is more than the mean area away from the mean:
\* its balance is 100 - min(157.14, 100) = 0.
C14_Witness ==
    /\ AnalysisDone
    /\ next_layout = 2
    /\ layouts[0].layout_type = "fallback"
    /\ Len(layouts[1].content_placeholders) = 3
    /\ float_less(float_hundred,
                  deviation_percent(
                      AreaDoubles(layouts[1].content_placeholders)))
    /\ layouts[1].visual_balance = float_zero

\* The PlaceholderInfo objects of the analyzed layouts.
AnalyzedPlaceholders ==
    UNION {{layouts[i].content_placeholders[j] :
                j \in 1..Len(layouts[i].content_placeholders)}
           \cup {layouts[i].subtitle_placeholders[j] :
                     j \in 1..Len(layouts[i].subtitle_placeholders)} :
           i \in DOMAIN layouts}

SizeClasses(ph) ==
    (IF is_small_box(ph) THEN {"small"} ELSE {})
    \cup (IF is_medium_box(ph) THEN {"medium"} ELSE {})
    \cup (IF is_large_box(ph) THEN {"large"} ELSE {})

\* C15: every placeholder of non-negative area is exactly one of small,
\* medium and large; an area of 3.0 is medium and not small, an area of 15.0
\* is large and not medium.
C15_ExactlyOneSizeClass ==
    \A ph \in AnalyzedPlaceholders :
        /\ ph.area >= 0 => Cardinality(SizeClasses(ph)) = 1
        /\ ph.area = 300 => SizeClasses(ph) = {"medium"}
        /\ ph.area = 1500 => SizeClasses(ph) = {"large"}

\* A finished analysis with placeholders of area 3.0 and 15.0, and with a
\* small one.
C15_Witness ==
    /\ AnalysisDone
    /\ \E ph \in AnalyzedPlaceholders : ph.area = 300
    /\ \E ph \in AnalyzedPlaceholders : ph.area = 1500
    /\ \E ph \in AnalyzedPlaceholders : ph.area < 300

\* The content placeholders _detect_kpi_grid is given for a slide layout.
GridInput(slide_layout) == content_placeholders_of(slide_layout.placeholders)

SmallBoxes(slide_layout) == SelectSeq(GridInput(slide_layout), is_small_box)

\* The rows of small boxes: the sets of boxes with the same top rounded to
\* a third of an inch.
RowGroups(slide_layout) ==
    LET small == SmallBoxes(slide_layout)
    IN  {{j \in 1..Len(small) : row_key(small[j]) = row_key(small[k])} :
            k \in 1..Len(small)}

\* No area is further from the mean than 30% of the mean, on the areas,
\* the mean and the distances the program has: doubles.
WithinThirtyPercent(areas) ==
    \A j \in 1..Len(areas) :
        ~float_less(float_mul(mean_area(areas),
                              float_div(float_of_int(3), float_of_int(10))),
                    float_abs(float_sub(areas[j], mean_area(areas))))

\* The grid of a slide layout is there exactly under the conditions of C16
\* and has as many rows as there are row groups.
GridAsStated(slide_layout, grid) ==
    /\ grid # NoGrid <=>
           /\ Len(SmallBoxes(slide_layout)) >= 4
           /\ Cardinality(RowGroups(slide_layout)) >= 2
           /\ \A row \in RowGroups(slide_layout) : Cardinality(row) >= 2
           /\ WithinThirtyPercent(AreaDoubles(SmallBoxes(slide_layout)))
    /\ grid # NoGrid => grid.rows = Cardinality(RowGroups(slide_layout))

\* The readable slide layouts of GeometryPool, each with whether its grid
\* is as stated, computed once.
PoolGridsAsStated ==
    {<<pair[1], GridAsStated(pair[1], pair[2])>> : pair \in PoolGrids}

\* C16: _detect_kpi_grid returns a grid exactly when there are at least 4
\* small boxes, they fall into at least 2 rows (by top rounded to 1/3) of at
\* least 2 boxes each, and no box area is further than 30% of the mean area
\* from the mean; the rows it reports are the number of row groups; and an
\* analyzed layout with a grid has story type metrics_dashboard.
C16_KpiGrid ==
    /\ \A i \in 0..(next_layout - 1) :
          ~presentation[i + 1].bad =>
              /\ <<presentation[i + 1], TRUE>> \in PoolGridsAsStated
              /\ i \notin failed_layouts
                     => layouts[i].kpi_grid = grid_of(presentation[i + 1])
    /\ \A i \in DOMAIN layouts :
          has_kpi_grid(layouts[i])
              => layouts[i].semantic_story_type = "metrics_dashboard"

\* A finished analysis of a layout of five small boxes of area 2 in rows of
\* three and two, found to be a grid of 2 rows, and of a layout of four
\* small boxes in one row, which is no grid.
C16_Witness ==
    /\ AnalysisDone
    /\ next_layout = 2
    /\ Len(SmallBoxes(presentation[1])) = 5
    /\ \A j \in 1..5 : SmallBoxes(presentation[1])[j].area = 200
    /\ layouts[0].kpi_grid # NoGrid
    /\ layouts[0].kpi_grid.rows = 2
    /\ layouts[0].semantic_story_type = "metrics_dashboard"
    /\ Len(SmallBoxes(presentation[2])) = 4
    /\ Cardinality(RowGroups(presentation[2])) = 1
    /\ layouts[1].kpi_grid = NoGrid

\* C17: analyzing the same placeholder geometry twice yields structurally
\* equal LayoutCapability records, best_for included, and _detect_kpi_grid
\* run again on the same placeholders yields the same rows and cols.
C17_AsStated ==
    analyses.first.done /\ analyses.second.done =>
        /\ analyses.first.capability = analyses.second.capability
        /\ analyses.first.best_for = analyses.second.best_for
        /\ analyses.first.kpi_grid.rows = analyses.second.kpi_grid.rows
        /\ analyses.first.kpi_grid.cols = analyses.second.kpi_grid.cols

\* sum(ph.area for ph in section.content_areas), a double.
SectionArea(section) == float_sum(AreaDoubles(section.content_areas))

\* The rules of the story type in their order, read off a LayoutCapability.
FirstMatchingRule(layout) ==
    LET sections == layout.semantic_sections
        content == layout.content_placeholders
        small == SelectSeq(content, is_small_box)
        large == SelectSeq(content, is_large_box)
        largest == FirstLargest(content)
    IN  CASE has_kpi_grid(layout) -> "metrics_dashboard"
          [] ~has_kpi_grid(layout) /\ Len(sections) = 1 ->
                 IF largest.area > 4000 /\ aspect_over_three_halves(largest)
                 THEN "data_visualization"
                 ELSE IF largest.area > 4000 THEN "detailed_analysis"
                 ELSE "focused_message"
          [] ~has_kpi_grid(layout) /\ Len(sections) = 2 ->
                 IF float_less(float_abs(float_sub(SectionArea(sections[1]),
                                                   SectionArea(sections[2]))),
                               float_of_int(5))
                 THEN "balanced_comparison" ELSE "main_supporting"
          [] ~has_kpi_grid(layout) /\ Len(sections) = 3 ->
                 "three_stage_narrative"
          [] OTHER ->
                 IF Len(content) >= 6 /\ Len(small) = Len(content)
                 THEN "feature_grid"
                 ELSE IF Len(large) >= 1 /\ Len(small) >= 2
                 THEN "hierarchical_story"
                 ELSE "general_content"

\* For every entry a slide layout of GeometryPool can get, computed once:
\* the story type of the first rule that matches.
PoolRules ==
    {<<pair[2], FirstMatchingRule(pair[2])>> : pair \in PoolEntries}

\* C18: the semantic_story_type of every layout is given by the first rule
\* that matches: a KPI grid -> metrics_dashboard; one section ->
\* data_visualization if the largest content area is over 40 with aspect
\* over 1.5, detailed_analysis if it is over 40, else focused_message; two
\* sections -> balanced_comparison if their areas differ by less than 5,
\* else main_supporting; three sections -> three_stage_narrative; at least
\* 6 content placeholders, all small -> feature_grid; a large and two small
\* -> hierarchical_story; otherwise general_content.
C18_StoryTypeRules ==
    \A i \in DOMAIN layouts :
        \E rule \in PoolRules :
            /\ rule[1] = layouts[i]
            /\ layouts[i].semantic_story_type = rule[2]

\* A finished analysis of a layout with a KPI grid that is also one section,
\* where the first rule decides, and of a layout of two sections of 5 and 20
\* square inches.
C18_Witness ==
    /\ AnalysisDone
    /\ next_layout = 2
    /\ has_kpi_grid(layouts[0])
    /\ Len(layouts[0].semantic_sections) = 1
    /\ layouts[0].semantic_story_type = "metrics_dashboard"
    /\ Len(layouts[1].semantic_sections) = 2
    /\ SectionArea(layouts[1].semantic_sections[1]) = float_of_int(5)
    /\ SectionArea(layouts[1].semantic_sections[2]) = float_of_int(20)
    /\ layouts[1].semantic_story_type = "main_supporting"

\* The slide layout has one placeholder and nothing else, a content
\* placeholder of area 50 and aspect ratio 2.0.
OneContentPlaceholderOfFifty(slide_layout) ==
    /\ ~slide_layout.bad
    /\ Len(slide_layout.placeholders) = 1
    /\ goes_to_content(slide_layout.placeholders[1])
    /\ placeholder_info(slide_layout.placeholders[1]).area = 5000
    /\ slide_layout.placeholders[1].width = 2 * slide_layout.placeholders[1].height

\* C19: a layout whose only placeholder is one content placeholder of area
\* 50 and aspect ratio 2.0, without subtitle and without KPI grid, gets the
\* story type data_visualization.
C19_AsStated ==
    \A i \in DOMAIN layouts :
        OneContentPlaceholderOfFifty(presentation[i + 1])
            => layouts[i].semantic_story_type = "data_visualization"

\* The subtitle at position k of the layout's subtitles qualifies for the
\* content placeholder: the content lies more than 0 and less than 1.0
\* inch below it and at most 1.5 inches beside it, the two distances being
\* the differences of the placeholders' double coordinates.
Qualifies(layout, k, content) ==
    LET subtitle == layout.subtitle_placeholders[k]
    IN  /\ 0 < content.top - subtitle.top
        /\ vertical_distance_under_an_inch(content.top, subtitle.top)
        /\ ~left_distance_over_an_inch_and_a_half(content.left,
                                                  subtitle.left)

\* The positions, among the layout's subtitles, of the subtitles whose
\* section holds the content placeholder.
SectionsHolding(layout, content) ==
    {k \in DOMAIN layout.subtitle_placeholders :
        \E s \in DOMAIN layout.semantic_sections :
            /\ layout.semantic_sections[s].subtitle =
                   layout.subtitle_placeholders[k].idx
            /\ \E a \in DOMAIN layout.semantic_sections[s].content_areas :
                  layout.semantic_sections[s].content_areas[a].idx = content.idx}

\* C23: every content placeholder is in the content_areas of at most one
\* section; it is in the section of a subtitle only if it lies more than 0
\* and less than 1.0 below the subtitle's top and at most 1.5 beside its
\* left edge; and when several subtitles qualify, it is in the section of
\* the first of them in iteration order.
C23_AtMostOneSection ==
    \A i \in DOMAIN layouts : \A c \in DOMAIN layouts[i].content_placeholders :
        LET layout == layouts[i]
            content == layout.content_placeholders[c]
            holding == SectionsHolding(layout, content)
            qualifying == {k \in DOMAIN layout.subtitle_placeholders :
                              Qualifies(layout, k, content)}
        IN  /\ Cardinality(holding) <= 1
            /\ holding \subseteq qualifying
            /\ qualifying # {} => holding # {}
            /\ \A k \in holding : \A j \in qualifying : k <= j
            /\ \A s1, s2 \in DOMAIN layout.semantic_sections :
                  \A a1 \in DOMAIN layout.semantic_sections[s1].content_areas :
                  \A a2 \in DOMAIN layout.semantic_sections[s2].content_areas :
                      layout.semantic_sections[s1].content_areas[a1].idx =
                          layout.semantic_sections[s2].content_areas[a2].idx
                          => s1 = s2 /\ a1 = a2

\* An analyzed layout where two subtitles qualify for one content
\* placeholder, the second of them the nearer one, and the placeholder is
\* in the section of the first.
C23_Witness ==
    \E i \in DOMAIN layouts : \E c \in DOMAIN layouts[i].content_placeholders :
        LET layout == layouts[i]
            content == layout.content_placeholders[c]
        IN  /\ Len(layout.subtitle_placeholders) >= 2
            /\ Qualifies(layout, 1, content)
            /\ Qualifies(layout, 2, content)
            /\ layout.subtitle_placeholders[2].top >
                   layout.subtitle_placeholders[1].top
            /\ SectionsHolding(layout, content) = {1}

\* The type ids the rule table names, and the role it gives a placeholder.
TableTypeIds == {1, 4, 10, 11, 15, 2, 9, 16, 17}

StatedRole(shape) ==
    IF shape.type_id = 4 THEN "subtitle"
    ELSE IF shape.type_id = 1 THEN "title"
    ELSE IF shape.type_id = 10 THEN "chart"
    ELSE IF shape.type_id = 11 THEN "table"
    ELSE IF shape.type_id = 15 THEN "image"
    ELSE IF shape.height < 5 \/ shape.width * shape.height < 100
         THEN "subtitle"
    ELSE IF aspect_over_three(shape.width, shape.height) /\ shape.height < 8
         THEN "subtitle"
    ELSE "content"

\* C25: the role of a placeholder follows the rule table: subtitle and
\* title ids give subtitle and title, chart, table and picture ids give
\* chart, table and image, and a generic body or object id gives subtitle
\* when height < 0.5 or area < 1.0 or (aspect ratio > 3.0 and height < 0.8),
\* content otherwise.
C25_AsStated ==
    \A i \in DOMAIN layouts :
        \A p \in DOMAIN presentation[i + 1].placeholders :
            LET shape == presentation[i + 1].placeholders[p]
            IN  shape.readable /\ shape.type_id \in TableTypeIds
                    => shape_role(shape) = StatedRole(shape)

\* The three terms of the complexity of a layout, in points.
SectionPoints(layout) == 15 * Len(layout.semantic_sections)
PlaceholderPoints(layout) == 8 * Len(layout.content_placeholders)
SmallBoxPoints(layout) == 5 * count_small_boxes(layout)

\* C29 as stated: complexity_score is min(100, 15 * sections
\* + 8 * content placeholders + 5 * small boxes), the sum being clamped
\* only once as a whole.
C29_AsStated ==
    \A i \in DOMAIN layouts :
        layouts[i].complexity_score =
            Min(10000, 100 * (SectionPoints(layouts[i])
                              + PlaceholderPoints(layouts[i])
                              + SmallBoxPoints(layouts[i])))

\* C29, amended: complexity_score is min(40, 15 * sections)
\* + min(40, 8 * content placeholders) + min(20, 5 * small boxes); each term
\* is capped on its own, so the sum never exceeds 100.
C29_ComplexityCappedPerTerm ==
    \A i \in DOMAIN layouts :
        layouts[i].complexity_score =
            100 * (Min(40, SectionPoints(layouts[i]))
                   + Min(40, PlaceholderPoints(layouts[i]))
                   + Min(20, SmallBoxPoints(layouts[i])))

\* A finished analysis with a layout of three sections (45 points capped
\* to 40) and a layout of at least six small boxes (48 and 30 points capped
\* to 40 and 20).
C29_Witness ==
    /\ AnalysisDone
    /\ \E i \in DOMAIN layouts :
          /\ SectionPoints(layouts[i]) > 40
          /\ layouts[i].complexity_score > 0
    /\ \E i \in DOMAIN layouts :
          /\ PlaceholderPoints(layouts[i]) > 40
          /\ SmallBoxPoints(layouts[i]) > 20
          /\ layouts[i].complexity_score = 6000

----------------------------------------------------------------------------
(* Claims about the analyzer cache. *)

Building(k) == {t \in DOMAIN threads : threads[t].pc = "build" /\ threads[t].template_key = k}
Served(k) == {t \in DOMAIN threads : threads[t].pc = "done" /\ threads[t].template_key = k}

\* C12: when request threads call get_or_create_analyzer concurrently with
\* the same template key, at most one build of the analyzer for that key is
\* in progress at any time, at most one analyzer is ever built for the key,
\* and every caller is returned the same instance.
C12_AsStated ==
    \A k \in TemplateKeys :
        /\ Cardinality(Building(k)) <= 1
        /\ builds[k] <= 1
        /\ \A t1 \in Served(k), t2 \in Served(k) :
              threads[t1].result = threads[t2].result

----------------------------------------------------------------------------
(* Claims about scoring and mapping on one layout. *)

\* C13: for every analyzed layout, every content type and every payload,
\* _score_layout_for_content returns a value, and the value lies in the
\* closed range [0, 100].
C13_AsStated ==
    score_result # NotCalled
        => /\ score_result.outcome = "returned"
           /\ score_result.score >= 0
           /\ score_result.score <= 100

\* A comparison payload (sections given as dicts, no chart, no table) sent to
\* a layout that has content placeholders but fewer than two sections.
ComparisonWithoutTwoSections ==
    /\ ~request.slide_json.chart
    /\ ~request.slide_json.table.present
    /\ request.slide_json.bullet_points # <<>>
    /\ request.slide_json.bullet_points[1].kind = "dict"
    /\ Len(layouts[request.layout_idx].semantic_sections) < 2
    /\ layouts[request.layout_idx].content_placeholders # <<>>

\* C20: when the placeholder category a payload needs is absent from the
\* layout (a comparison payload on a layout with fewer than two sections),
\* map_content_to_placeholders does not raise and returns a mapping onto
\* the single largest content placeholder.
C20_AsStated ==
    (mapping_result # NotCalled /\ ComparisonWithoutTwoSections)
        => /\ mapping_result.outcome = "returned"
           /\ DOMAIN mapping_result.mapping =
                  {FirstLargest(layouts[request.layout_idx]
                                    .content_placeholders).idx}

\* A non-empty flat list of bullet strings without icon markers, no chart
\* and no table, sent to a layout that has a content placeholder.
FlatBulletsOnContentLayout ==
    /\ ~request.slide_json.chart
    /\ ~request.slide_json.table.present
    /\ request.slide_json.bullet_points # <<>>
    /\ \A i \in DOMAIN request.slide_json.bullet_points :
          /\ request.slide_json.bullet_points[i].kind = "str"
          /\ ~request.slide_json.bullet_points[i].icon
    /\ layouts[request.layout_idx].content_placeholders # <<>>

\* C21: for a non-empty flat list of bullet strings and a layout with at
\* least one content placeholder, map_content_to_placeholders returns a
\* mapping with exactly one key, the largest content placeholder, carrying
\* the bullets.
C21_AsStated ==
    (mapping_result # NotCalled /\ FlatBulletsOnContentLayout)
        => /\ mapping_result.outcome = "returned"
           /\ DOMAIN mapping_result.mapping =
                  {FirstLargest(layouts[request.layout_idx]
                                    .content_placeholders).idx}
           /\ \A idx \in DOMAIN mapping_result.mapping :
                  mapping_result.mapping[idx] = content_spec("bullets", 0)

\* A comparison payload, a non-empty list of dicts with a heading and
\* bullets each, no chart and no table, on a layout that has as many
\* sections as the list has entries.
ComparisonOnMatchingSections ==
    /\ ~request.slide_json.chart
    /\ ~request.slide_json.table.present
    /\ request.slide_json.bullet_points # <<>>
    /\ \A i \in DOMAIN request.slide_json.bullet_points :
          request.slide_json.bullet_points[i].kind = "dict"
    /\ Len(layouts[request.layout_idx].semantic_sections) =
           Len(request.slide_json.bullet_points)

\* C22: for a comparison payload on a layout whose section count matches
\* the number of entries, map_content_to_placeholders maps entry i to
\* section i, the heading on the subtitle placeholder of the section and
\* the bullets on its first content placeholder, and the mapping has no
\* other keys.
C22_AsStated ==
    (mapping_result # NotCalled /\ ComparisonOnMatchingSections)
        => /\ mapping_result.outcome = "returned"
           /\ LET sections == layouts[request.layout_idx].semantic_sections
              IN  /\ DOMAIN mapping_result.mapping =
                         {sections[i].subtitle : i \in DOMAIN sections}
                         \cup {sections[i].content_areas[1].idx :
                                   i \in DOMAIN sections}
                  /\ \A i \in DOMAIN sections :
                         /\ mapping_result.mapping[sections[i].subtitle] =
                                content_spec("subtitle", i)
                         /\ mapping_result.mapping[
                                sections[i].content_areas[1].idx] =
                                content_spec("bullets", i)

----------------------------------------------------------------------------
(* Claims about a session on one analyzed template. *)

\* C24: no selection, scoring or mapping operation changes analyzer.layouts
\* or a field of a LayoutCapability; the operations change only the
\* matcher's used_layouts, used_story_types and section_sequence.
C24_LayoutsNeverMutated == [][layouts' = layouts]_vars

\* A session where select_layout_for_slide and select_layout_with_scoring
\* have returned, the matcher has recorded a selection, and a layout has
\* been scored and mapped.
C24_Witness ==
    /\ \E c \in DOMAIN calls :
          /\ calls[c].op = "select_layout_for_slide"
          /\ calls[c].outcome = "returned"
    /\ \E c \in DOMAIN calls :
          /\ calls[c].op = "select_layout_with_scoring"
          /\ calls[c].outcome = "returned"
    /\ used_layouts # <<>>
    /\ section_sequence # <<>>
    /\ score_result.outcome = "returned"
    /\ mapping_result.outcome = "returned"
    /\ DOMAIN mapping_result.mapping # {}

----------------------------------------------------------------------------
(* Claims about the diversity rule of select_layout_for_slide. *)

CandidateStory(i) == story_of(layouts, calls[i].candidate)

\* C26: select_layout_for_slide returns a layout other than the
\* maximum-score candidate only when the two previously returned selections
\* both have the candidate's story type; otherwise, in particular on the
\* first and second slide of a run, the candidate is returned unchanged.
C26_AsStated ==
    \A i \in 1..Len(calls) :
        (IsSlideCall(i) /\ Returned(i) /\ calls[i].result # calls[i].candidate)
            => /\ i >= 3
               /\ Returned(i - 1)
               /\ Returned(i - 2)
               /\ ReturnedStory(i - 1) = CandidateStory(i)
               /\ ReturnedStory(i - 2) = CandidateStory(i)

\* The content score of layout idx for the payload of call i.
ContentScore(i, idx) ==
    score_layout_for_content(layouts[idx],
                             infer_content_type_from_json(calls[i].slide_json),
                             calls[i].slide_json)

\* The layouts of another story type than the candidate of call i that
\* score no more than 12 points below it.
WithinMargin(i) ==
    {idx \in DOMAIN layouts :
        /\ idx # calls[i].candidate
        /\ layouts[idx].semantic_story_type # CandidateStory(i)
        /\ ContentScore(i, idx) >= ContentScore(i, calls[i].candidate) - 12}

\* C27: whenever select_layout_for_slide returns an alternative instead of
\* the maximum-score candidate, the alternative has another story type than
\* the candidate and scores no more than 12 points below it; when no layout
\* satisfies both conditions the candidate is returned and no error is
\* raised.
C27_AlternativeWithinMargin ==
    \A i \in 1..Len(calls) :
        (IsSlideCall(i) /\ calls[i].candidate \in DOMAIN layouts)
            => /\ Returned(i)
               /\ calls[i].result # calls[i].candidate
                      => calls[i].result \in WithinMargin(i)
               /\ WithinMargin(i) = {}
                      => calls[i].result = calls[i].candidate

\* A run in which one call switched to an alternative and another call
\* searched for one, found none and returned its candidate.
C27_Witness ==
    /\ \E i \in 1..Len(calls) :
          /\ IsSlideCall(i)
          /\ calls[i].switched
          /\ calls[i].result # calls[i].candidate
    /\ \E i \in 1..Len(calls) :
          /\ IsSlideCall(i)
          /\ Returned(i)
          /\ calls[i].searched
          /\ WithinMargin(i) = {}
          /\ calls[i].result = calls[i].candidate

RECURSIVE SelectionsUpTo(_)
\* The layouts returned for the slides up to call n, in order.
SelectionsUpTo(n) ==
    IF n = 0 THEN <<>>
    ELSE IF Returned(n) THEN Append(SelectionsUpTo(n - 1), calls[n].result)
    ELSE SelectionsUpTo(n - 1)

PreviousSelections == SelectionsUpTo(Len(calls))

\* C28: when the next slide is scored, a layout gets the repetition
\* penalty of 20 if and only if it was the returned selection for at least
\* 2 of the previous 5 slides, and the diversity bonus of 10 if and only if
\* it differs from the returned selection of each of the previous two
\* slides.
C28_AsStated ==
    Len(calls) < Len(slides) =>
        \A idx \in DOMAIN layouts :
            /\ repetition_penalty(idx, used_layouts) > 0
                   <=> Count(LastN(PreviousSelections, 5), idx) >= 2
            /\ diversity_bonus(idx, used_layouts) > 0
                   <=> /\ Len(PreviousSelections) >= 2
                       /\ \A k \in 1..2 :
                              LastN(PreviousSelections, 2)[k] # idx

----------------------------------------------------------------------------
(* Claims about the matcher's history. *)

\* C30: in every reachable state of a matcher used_layouts and
\* used_story_types have the same length, and used_story_types[i] is the
\* semantic_story_type of layout used_layouts[i], or None when that index
\* is not an analyzed layout.
C30_HistoriesCorrespond ==
    /\ Len(used_layouts) = Len(used_story_types)
    /\ \A i \in 1..Len(used_layouts) :
          used_story_types[i] =
              IF used_layouts[i] \in DOMAIN layouts
              THEN layouts[used_layouts[i]].semantic_story_type
              ELSE NoneStory

\* A run that has cut its history down to the last 50 entries and whose
\* history holds layouts of different story types.
C30_Witness ==
    /\ Len(all_layouts) > HistoryLimit
    /\ Len(used_layouts) = HistoryLimit
    /\ \E i, j \in 1..Len(used_layouts) :
          used_story_types[i] # used_story_types[j]

====
